---------------------------- MODULE Spec2Model ----------------------------
(***************************************************************************)
(* Model of the iTowns vector feature data model (src/src/Core/Feature.js), *)
(* the GeoJSON conversion that populates it (src/unnamed/part_000) and the  *)
(* mesh conversion that consumes it (src/unnamed/part_001).                 *)
(*                                                                          *)
(* JavaScript objects live in heaps: `features` holds the Feature objects   *)
(* (a Feature's identity is its position in that heap) and `stores` holds   *)
(* the three arrays a Feature points to (vertices, normals, geometries),    *)
(* which newFeatureByReference aliases as a group.  collection.features is  *)
(* the list of Feature identities.  The Extent object that the constructor  *)
(* of a Feature creates is kept beside it in `features` (its field `box`),  *)
(* and the field `extent` of a Feature refers to such an object by the      *)
(* identity of the Feature it was created for.                              *)
(***************************************************************************)
EXTENDS Integers, Sequences, FiniteSets, TLC

VARIABLES
    collection,   \* the FeatureCollection's own fields
    features,     \* heap of Feature objects, indexed by identity
    stores,       \* heap of (vertices, normals, geometries) array groups
    phase,        \* position of the driving program
    last,         \* history: the last call, its arguments and its result
    hist,         \* history: bookkeeping of how the buffers were written
    meshes        \* output of the mesh conversion

vars == <<collection, features, stores, phase, last, hist, meshes>>

----------------------------------------------------------------------------
(* Bounds of the model.                                                     *)

MaxCalls == 5         \* population calls made on one Feature
MaxVertices == 3      \* vertex slots one Feature may hold
MaxCount == 2         \* largest count passed to start/closeSubGeometry
MaxGeometries == 2    \* geometries bound to one Feature
MaxIndices == 2       \* SubGeometryIndex entries of one geometry
MaxFeatures == 2      \* Feature objects allocated in one collection
MaxBindings == 1      \* geometries bound to one Feature through the collection
MaxJson == 2          \* GeoJSON features fed to one parse

----------------------------------------------------------------------------
(* JavaScript values.                                                       *)

\* An optional value: undefined is <<>>, a defined value v is <<v>>.
Undefined == <<>>
Some(v) == <<v>>
IsDefined(o) == o /= Undefined
Get(o) == o[1]

\* One slot of a JavaScript number array: an empty slot (a hole left by
\* `array.length += n`) or a number.
Hole == Undefined
Num(v) == Some(v)
\* The sequence with the elements of a function over 1..n.
AsSeq(f) == f \o <<>>

Holes(n) == AsSeq([i \in 1..n |-> Hole])

\* `array.length = n`: truncates, or pads with empty slots.
SetLength(arr, n) ==
    AsSeq([i \in 1..n |-> IF i <= Len(arr) THEN arr[i] ELSE Hole])

\* `array[i] = v` with a 0-based index i: assignment past the end grows the
\* array, leaving empty slots in between.
WriteAt(arr, i, v) ==
    AsSeq([k \in 1..(IF i + 1 > Len(arr) THEN i + 1 ELSE Len(arr)) |->
              IF k = i + 1 THEN Num(v)
              ELSE IF k <= Len(arr) THEN arr[k] ELSE Hole])

----------------------------------------------------------------------------
(* Feature.js: buffers and sub-geometries.                                  *)

FEATURE_TYPES == [POINT |-> 0, LINE |-> 1, POLYGON |-> 2]
FeatureTypeKeys == <<"POINT", "LINE", "POLYGON">>

defaultNormal == <<0, 0, 1>>

\* A buffer extension that forgets the normals.
extendBufferNoNormals(st, feature, n) ==
    [st EXCEPT !.vertices = @ \o Holes(n * feature.size)]

\* A buffer extension by n slots instead of n vertices.
extendBufferBySlots(st, feature, n) ==
    LET v == st.vertices \o Holes(n)
    IN  [st EXCEPT !.vertices = v,
                   !.normals = IF IsDefined(@)
                               THEN Some(SetLength(Get(@), Len(v))) ELSE @]

\* _extendBuffer(feature, size)
extendBuffer(st, feature, n) ==
    LET v == st.vertices \o Holes(n * feature.size)
    IN  [st EXCEPT !.vertices = v,
                   !.normals = IF IsDefined(@)
                               THEN Some(SetLength(Get(@), Len(v))) ELSE @]

\* new FeatureGeometry(feature)
FeatureGeometry(feature) ==
    [indices |-> <<>>, properties |-> [styled |-> TRUE], size |-> feature.size]

\* FeatureGeometry.startSubGeometry(count, feature), on geometry gi of the
\* store st the feature points to.
startSubGeometry(st, gi, count, feature) ==
    LET geom == st.geometries[gi]
        lastIx == Len(geom.indices) - 1
        offset == IF lastIx > -1
                  THEN geom.indices[lastIx + 1].offset + geom.indices[lastIx + 1].count
                  ELSE Len(st.vertices) \div geom.size
        st1 == [st EXCEPT !.geometries[gi].indices =
                              Append(@, [offset |-> offset, count |-> count])]
    IN  extendBuffer(st1, feature, count)

\* A closeSubGeometry that takes the fill position itself as the offset.
closeSubGeometryAtFill(st, gi, count, feature) ==
    LET geom == st.geometries[gi]
        lastIx == Len(geom.indices) - 1
        offset == IF lastIx > -1
                  THEN geom.indices[lastIx + 1].offset + geom.indices[lastIx + 1].count
                  ELSE Len(st.vertices) \div geom.size
    IN  [st EXCEPT !.geometries[gi].indices =
                       Append(@, [offset |-> offset, count |-> count])]

\* FeatureGeometry.closeSubGeometry(count, feature)
closeSubGeometry(st, gi, count, feature) ==
    LET geom == st.geometries[gi]
        lastIx == Len(geom.indices) - 1
        offset == IF lastIx > -1
                  THEN geom.indices[lastIx + 1].offset + geom.indices[lastIx + 1].count
                  ELSE (Len(st.vertices) \div geom.size) - count
    IN  [st EXCEPT !.geometries[gi].indices =
                       Append(@, [offset |-> offset, count |-> count])]

\* push2DValues / push3DValues, bound to the feature: they write at
\* feature._pos and advance it.  The result is the store and the feature.
push2DValues(st, feature, value0, value1) ==
    [store |-> [st EXCEPT !.vertices =
                    WriteAt(WriteAt(@, feature.pos, value0), feature.pos + 1, value1)],
     feature |-> [feature EXCEPT !.pos = @ + 2]]

push3DValues(st, feature, value0, value1, value2) ==
    [store |-> [st EXCEPT !.vertices =
                    WriteAt(WriteAt(WriteAt(@, feature.pos, value0),
                                    feature.pos + 1, value1),
                            feature.pos + 2, value2)],
     feature |-> [feature EXCEPT !.pos = @ + 3]]

\* feature._pushValues: chosen by the constructor from collection.size.
pushValues(st, feature, x, y, z) ==
    IF feature.push3D THEN push3DValues(st, feature, x, y, z)
    ELSE push2DValues(st, feature, x, y)

\* THREE.Vector3.toArray(array, offset): three writes from offset on.
toArray(normal, arr, offset) ==
    WriteAt(WriteAt(WriteAt(arr, offset, normal[1]), offset + 1, normal[2]),
            offset + 2, normal[3])

\* The normal write of pushCoordinates / pushCoordinatesValues.
writeNormal(st, feature, normal) ==
    IF IsDefined(st.normals)
    THEN [st EXCEPT !.normals = Some(toArray(normal, Get(@), feature.pos))]
    ELSE st

\* FeatureGeometry.pushCoordinatesValues(feature, long, lat, alt, normal)
pushCoordinatesValues(st, feature, long, lat, alt, normal) ==
    pushValues(writeNormal(st, feature, normal), feature, long, lat, alt)

----------------------------------------------------------------------------
(* Coordinates and the collaborators of Feature.js that are not part of the *)
(* source files: projection and the local frame's matrices.                 *)

Coord(x, y, z) == [x |-> x, y |-> y, z |-> z]

\* Coordinates.as(crs, target): the projection from the input CRS to the
\* collection's CRS, an opaque collaborator; any fixed map that is not the
\* identity stands for it.
project(c) == Coord(2 * c.x + 1, 2 * c.y, c.z)

\* coordOut.geodesicNormal of a projected (planar) coordinate.
geodesicNormal(c) == defaultNormal

----------------------------------------------------------------------------
(* Feature.js: Feature and FeatureCollection.                               *)

\* defaultExtent(crs): the empty box, which holds no point.
defaultExtent == <<>>

\* Extent.union(extent): the smallest box holding both.
union(a, b) ==
    IF b = defaultExtent THEN a
    ELSE IF a = defaultExtent THEN b
    ELSE Some([west |-> IF Get(a).west < Get(b).west THEN Get(a).west ELSE Get(b).west,
               east |-> IF Get(a).east > Get(b).east THEN Get(a).east ELSE Get(b).east,
               south |-> IF Get(a).south < Get(b).south THEN Get(a).south ELSE Get(b).south,
               north |-> IF Get(a).north > Get(b).north THEN Get(a).north ELSE Get(b).north])

\* new FeatureCollection(options)
FeatureCollection(options) ==
    [size |-> IF options.structure = "3d" THEN 3 ELSE 2,
     mergeFeatures |-> IF IsDefined(options.mergeFeatures)
                       THEN Get(options.mergeFeatures) ELSE TRUE,
     filterExtent |-> options.filterExtent,
     style |-> options.style,
     features |-> <<>>,
     extent |-> IF options.buildExtent THEN Some(defaultExtent) ELSE Undefined,
     position |-> Coord(0, 0, 0),
     localFrameSet |-> FALSE]

\* applyTransformation2D(coord, c)
applyTransformation2D(coord, c) ==
    [coord EXCEPT !.x = @ - c.position.x, !.y = @ - c.position.y]

\* applyTransformation3D(coord, c): matrixWorldInverse and normalMatrix are
\* the identity as long as setMatrixWorld is not called.
applyTransformation3D(coord, c) == coord

\* A local frame that is set anew by every call.
setLocalCoordinatesEachCall(c, coord) ==
    IF c.size = 2
    THEN LET c1 == [c EXCEPT !.position = coord, !.localFrameSet = TRUE]
         IN  [collection |-> c1, coord |-> applyTransformation2D(coord, c1)]
    ELSE [collection |-> c, coord |-> applyTransformation3D(coord, c)]

\* FeatureCollection.setLocalCoordinates(coordinates): the collection and
\* the coordinate after the call.  In 2D the first call fixes the position
\* and swaps _setLocalCoordinates for applyTransformation2D.
setLocalCoordinates(c, coord) ==
    IF c.size = 2
    THEN IF ~c.localFrameSet
         THEN LET c1 == [c EXCEPT !.position = coord, !.localFrameSet = TRUE]
              IN  [collection |-> c1, coord |-> applyTransformation2D(coord, c1)]
         ELSE [collection |-> c, coord |-> applyTransformation2D(coord, c)]
    ELSE [collection |-> c, coord |-> applyTransformation3D(coord, c)]

\* Object.keys(FEATURE_TYPES).find(t => FEATURE_TYPES[t] === type): the
\* first matching key, or undefined.
RECURSIVE findTypeKey(_, _)
findTypeKey(keys, type) ==
    IF keys = <<>> THEN Undefined
    ELSE IF FEATURE_TYPES[Head(keys)] = type THEN Some(Head(keys))
    ELSE findTypeKey(Tail(keys), type)

\* A test of the type's own truthiness, which the value 0 of POINT fails.
isSupportedTypeByValue(type) ==
    \E k \in DOMAIN FEATURE_TYPES : FEATURE_TYPES[k] = type /\ FEATURE_TYPES[k] /= 0

\* The constructor's test: the truthiness of what find returned.  A key is
\* a non-empty string, so every found key is truthy.
isSupportedType(type) ==
    LET found == findTypeKey(FeatureTypeKeys, type)
    IN  IsDefined(found) /\ Get(found) /= ""

\* new Feature(type, collection): the Feature of identity fid, pointing to
\* the fresh array group storeId and, when the collection has an extent, to
\* the Extent it creates.  Throws when the type is not supported.
Feature(type, c, storeId, fid) ==
    [type |-> type, size |-> c.size, store |-> storeId, pos |-> 0,
     push3D |-> (c.size = 3), id |-> Undefined,
     extent |-> IF IsDefined(c.extent) THEN Some(fid) ELSE Undefined,
     box |-> defaultExtent]

\* The arrays a new Feature starts with.
NewStore(c) ==
    [vertices |-> <<>>,
     normals |-> IF c.size = 3 THEN Some(<<>>) ELSE Undefined,
     geometries |-> <<>>]

\* The heaps and the collection as one value, for the operations that
\* change several of them.
World == [collection |-> collection, features |-> features, stores |-> stores]

Result(w, ret, threw) == [world |-> w, ret |-> ret, threw |-> threw]

\* Array.prototype.find over collection.features: the identity of the first
\* Feature the callback accepts, or undefined.  The callback is given by the
\* set of Features it accepts.
findFeature(w, ids, callback) ==
    LET hits == {i \in 1..Len(ids) : ids[i] \in callback}
    IN  IF hits = {} THEN Undefined
        ELSE Some(ids[CHOOSE i \in hits : \A j \in hits : i <= j])

\* FeatureCollection.requestFeature(type, callback)
requestFeature(w, type, callback) ==
    LET feature == findFeature(w, w.collection.features, callback)
    IN  IF IsDefined(feature) /\ w.collection.mergeFeatures
        THEN Result(w, feature, FALSE)
        ELSE IF ~isSupportedType(type)
        THEN Result(w, Undefined, TRUE)
        ELSE LET storeId == Len(w.stores) + 1
                 fid == Len(w.features) + 1
                 newFeature == Feature(type, w.collection, storeId, fid)
             IN  Result([collection |-> [w.collection EXCEPT !.features = Append(@, fid)],
                         features |-> Append(w.features, newFeature),
                         stores |-> Append(w.stores, NewStore(w.collection))],
                        Some(fid), FALSE)

\* A request that never finds a Feature to reuse.
requestFeatureByTypeNoMerge(w, type) ==
    requestFeature(w, type, {})

\* FeatureCollection.requestFeatureByType(type)
requestFeatureByType(w, type) ==
    requestFeature(w, type, {f \in DOMAIN w.features : w.features[f].type = type})

\* FeatureCollection.requestFeatureById(id, type)
requestFeatureById(w, id, type) ==
    requestFeature(w, type, {f \in DOMAIN w.features : w.features[f].id = id})

\* FeatureCollection.newFeatureByReference(feature): the argument is any
\* object with the fields the method reads.
newFeatureByReference(w, feature) ==
    IF ~isSupportedType(feature.type)
    THEN Result(w, Undefined, TRUE)
    ELSE LET fid == Len(w.features) + 1
             ref == [Feature(feature.type, w.collection, feature.store, fid)
                        EXCEPT !.extent = feature.extent, !.size = feature.size,
                               !.pos = feature.pos]
         IN  Result([w EXCEPT !.collection.features = Append(@, fid),
                              !.features = Append(@, ref)],
                    Some(fid), FALSE)

\* Feature.updateExtent(geometry), on Feature fid, for a geometry of extent
\* geometryExtent.  The altitude range of the Feature is not kept.
updateExtent(w, fid, geometryExtent) ==
    IF IsDefined(w.features[fid].extent)
    THEN [w EXCEPT !.features[Get(w.features[fid].extent)].box = union(@, geometryExtent)]
    ELSE w

\* FeatureCollection.removeEmptyFeature()
removeEmptyFeature(w) ==
    [w EXCEPT !.collection.features =
        SelectSeq(@, LAMBDA fid : Len(w.stores[w.features[fid].store].geometries) /= 0)]

\* Feature.bindNewGeometry(), on Feature fid.
bindNewGeometry(w, fid) ==
    LET feature == w.features[fid]
    IN  [w EXCEPT !.stores[feature.store].geometries =
                      Append(@, FeatureGeometry(feature))]

\* FeatureGeometry.pushCoordinates(coordIn, feature), for Feature fid.  No
\* style base-altitude hook is configured.
pushCoordinates(w, fid, coordIn) ==
    LET feature == w.features[fid]
        st == w.stores[feature.store]
        loc == setLocalCoordinates(w.collection, project(coordIn))
        coordOut == loc.coord
        st1 == writeNormal(st, feature, geodesicNormal(coordOut))
        r == pushValues(st1, feature, coordOut.x, coordOut.y, coordOut.z)
    IN  [collection |-> loc.collection,
         features |-> [w.features EXCEPT ![fid] = r.feature],
         stores |-> [w.stores EXCEPT ![feature.store] = r.store]]

SetWorld(w) ==
    /\ collection' = w.collection
    /\ features' = w.features
    /\ stores' = w.stores

----------------------------------------------------------------------------
(* Measures of a Feature.                                                   *)

StoreOf(fid) == stores[features[fid].store]

\* The number of vertices the buffer holds: vertices.length / size.
VertexCount(fid) == Len(StoreOf(fid).vertices) \div features[fid].size

\* Every SubGeometryIndex entry of a Feature, as <<geometry, entry>> pairs.
Entries(fid) ==
    UNION {{<<gi, k>> : k \in 1..Len(StoreOf(fid).geometries[gi].indices)} :
              gi \in 1..Len(StoreOf(fid).geometries)}

Entry(fid, e) == StoreOf(fid).geometries[e[1]].indices[e[2]]

RECURSIVE SumCounts(_, _)
SumCounts(fid, es) ==
    IF es = {} THEN 0
    ELSE LET e == CHOOSE x \in es : TRUE
         IN  Entry(fid, e).count + SumCounts(fid, es \ {e})

----------------------------------------------------------------------------
(* Population of one Feature through the FeatureGeometry interface.         *)

\* The options a collection is built with.
Options(structure, merge, filterExtent, extrusion) ==
    [structure |-> structure, mergeFeatures |-> merge,
     filterExtent |-> filterExtent, style |-> [extrusion |-> extrusion],
     buildExtent |-> FALSE]

EmptyWorld(options) ==
    [collection |-> FeatureCollection(options), features |-> <<>>, stores |-> <<>>]

\* The coordinates the callers push.
InputCoords == {Coord(1, 1, 0), Coord(2, 3, 1)}

NoCall == [op |-> "none", type |-> 0, id |-> Undefined, ret |-> Undefined,
           threw |-> FALSE, constructed |-> FALSE, seen |-> FALSE, before |-> <<>>]

NoHist == [calls |-> 0, appended |-> 0, closeEntries |-> {}, overCount |-> {},
           byType |-> {}, typeCalls |-> 0]

\* A collection of either structure holding one freshly requested Feature.
Init ==
    \E structure \in {"2d", "3d"}, type \in {FEATURE_TYPES.LINE} :
        LET r == requestFeatureByType(
                     EmptyWorld(Options(structure, Undefined, Undefined, FALSE)), type)
        IN  /\ collection = r.world.collection
            /\ features = r.world.features
            /\ stores = r.world.stores
            /\ phase = "populate"
            /\ last = NoCall
            /\ hist = NoHist
            /\ meshes = <<>>

FeatureIds == 1..Len(features)

GeometryIds(fid) == 1..Len(StoreOf(fid).geometries)

Called == hist' = [hist EXCEPT !.calls = @ + 1]

\* feature.bindNewGeometry()
BindNewGeometry ==
    /\ hist.calls < MaxCalls
    /\ \E fid \in FeatureIds :
        /\ Len(StoreOf(fid).geometries) < MaxGeometries
        /\ SetWorld(bindNewGeometry(World, fid))
    /\ Called
    /\ UNCHANGED <<phase, last, meshes>>

\* geometry.startSubGeometry(count, feature)
StartSubGeometry ==
    /\ hist.calls < MaxCalls
    /\ \E fid \in FeatureIds : \E gi \in GeometryIds(fid) : \E count \in 0..MaxCount :
        /\ Len(StoreOf(fid).geometries[gi].indices) < MaxIndices
        /\ VertexCount(fid) + count <= MaxVertices
        /\ stores' = [stores EXCEPT ![features[fid].store] =
                          startSubGeometry(@, gi, count, features[fid])]
    /\ Called
    /\ UNCHANGED <<collection, features, phase, last, meshes>>

\* The number of coordinates a push appends: 1 when the write grows the
\* buffer, 0 when it lands in a slot that was already there.
Grown(fid, st) == (Len(st.vertices) - Len(StoreOf(fid).vertices)) \div features[fid].size

\* geometry.pushCoordinates(coordIn, feature)
PushCoordinates ==
    /\ hist.calls < MaxCalls
    /\ \E fid \in FeatureIds : \E gi \in GeometryIds(fid) : \E coordIn \in InputCoords :
        /\ features[fid].pos \div features[fid].size < MaxVertices
        /\ LET w == pushCoordinates(World, fid, coordIn)
           IN  /\ SetWorld(w)
               /\ hist' = [hist EXCEPT !.calls = @ + 1, !.appended =
                               @ + Grown(fid, w.stores[features[fid].store])]
    /\ UNCHANGED <<phase, last, meshes>>

\* geometry.pushCoordinatesValues(feature, long, lat, alt)
PushCoordinatesValues ==
    /\ hist.calls < MaxCalls
    /\ \E fid \in FeatureIds : \E gi \in GeometryIds(fid) : \E c \in InputCoords :
        /\ features[fid].pos \div features[fid].size < MaxVertices
        /\ LET r == pushCoordinatesValues(StoreOf(fid), features[fid],
                                          c.x, c.y, c.z, defaultNormal)
           IN  /\ stores' = [stores EXCEPT ![features[fid].store] = r.store]
               /\ features' = [features EXCEPT ![fid] = r.feature]
               /\ hist' = [hist EXCEPT !.calls = @ + 1,
                                        !.appended = @ + Grown(fid, r.store)]
    /\ UNCHANGED <<collection, phase, last, meshes>>

\* The vertices stored past the end of the geometry's last entry (in the
\* whole buffer when it has none): what a closeSubGeometry can close.
Closable(fid, gi) ==
    LET ix == StoreOf(fid).geometries[gi].indices
    IN  IF ix = <<>> THEN VertexCount(fid)
        ELSE VertexCount(fid) - (ix[Len(ix)].offset + ix[Len(ix)].count)

\* geometry.closeSubGeometry(count, feature)
CloseSubGeometry ==
    /\ hist.calls < MaxCalls
    /\ \E fid \in FeatureIds : \E gi \in GeometryIds(fid) : \E count \in 0..MaxCount :
        /\ Len(StoreOf(fid).geometries[gi].indices) < MaxIndices
        /\ stores' = [stores EXCEPT ![features[fid].store] =
                          closeSubGeometry(@, gi, count, features[fid])]
        /\ LET e == <<gi, Len(StoreOf(fid).geometries[gi].indices) + 1>>
           IN  hist' = [hist EXCEPT
                           !.calls = @ + 1,
                           !.closeEntries = @ \cup {e},
                           !.overCount = IF count > Closable(fid, gi)
                                         THEN @ \cup {e} ELSE @]
    /\ UNCHANGED <<collection, features, phase, last, meshes>>

Next ==
    \/ BindNewGeometry
    \/ StartSubGeometry
    \/ PushCoordinates
    \/ PushCoordinatesValues
    \/ CloseSubGeometry

Spec == Init /\ [][Next]_vars

----------------------------------------------------------------------------
(* C1-C3: the buffers of a Feature under population.                        *)

StartEntries(fid) == Entries(fid) \ hist.closeEntries

\* C1 as stated: after any sequence of bindNewGeometry, startSubGeometry,
\* pushCoordinates / pushCoordinatesValues and closeSubGeometry calls,
\* vertices.length equals size times the sum of count over every
\* SubGeometryIndex entry of the Feature.
C1_BufferSizeAnySequence ==
    \A fid \in FeatureIds :
        Len(StoreOf(fid).vertices) = features[fid].size * SumCounts(fid, Entries(fid))

\* C1, amended: vertices.length equals size times (the sum of count over
\* the entries recorded by startSubGeometry plus the number of coordinates a
\* push appended past the end of the buffer); it equals size times the sum
\* over every entry exactly when the counts passed to closeSubGeometry add
\* up to the number of appended coordinates.
C1_BufferSizeAccounting ==
    \A fid \in FeatureIds :
        /\ Len(StoreOf(fid).vertices) =
              features[fid].size * (SumCounts(fid, StartEntries(fid)) + hist.appended)
        /\ (SumCounts(fid, Entries(fid) \cap hist.closeEntries) = hist.appended)
              <=> (Len(StoreOf(fid).vertices) =
                      features[fid].size * SumCounts(fid, Entries(fid)))

\* A Feature holding a reserved sub-geometry, appended coordinates and a
\* closed sub-geometry at once.
C1_Witness ==
    \E fid \in FeatureIds :
        /\ hist.appended > 0
        /\ \E e \in StartEntries(fid) : Entry(fid, e).count > 0
        /\ \E e \in Entries(fid) \cap hist.closeEntries : Entry(fid, e).count > 0

\* C2: in every reachable state of a Feature, normals is defined if and
\* only if size is 3, and then normals.length equals vertices.length.
C2_NormalsInvariant ==
    \A fid \in FeatureIds :
        /\ IsDefined(StoreOf(fid).normals) <=> (features[fid].size = 3)
        /\ IsDefined(StoreOf(fid).normals) =>
              Len(Get(StoreOf(fid).normals)) = Len(StoreOf(fid).vertices)

\* A 3D Feature whose buffers were extended by startSubGeometry and then
\* grown further by a push past the reserved slots.
C2_Witness ==
    \E fid \in FeatureIds :
        /\ features[fid].size = 3
        /\ hist.appended > 0
        /\ \E e \in StartEntries(fid) : Entry(fid, e).count > 0
        /\ Len(Get(StoreOf(fid).normals)) > 3

InRange(fid, e) ==
    /\ 0 <= Entry(fid, e).offset
    /\ Entry(fid, e).offset + Entry(fid, e).count <= VertexCount(fid)

\* C3 as stated: every SubGeometryIndex entry recorded by startSubGeometry
\* or closeSubGeometry references vertices within [0, totalVertexCount).
C3_EntriesInRange ==
    \A fid \in FeatureIds : \A e \in Entries(fid) : InRange(fid, e)

\* C3, amended: the entries of a geometry lie within [0, totalVertexCount)
\* as long as no closeSubGeometry(count) call on that geometry was given a
\* count larger than the number of vertices stored past the end of the
\* geometry's previous entry (past the start of the buffer for its first).
C3_EntriesInRangeWhenClosable ==
    \A fid \in FeatureIds : \A e \in Entries(fid) :
        (\A o \in hist.overCount : o[1] /= e[1]) => InRange(fid, e)

\* A geometry holding an entry recorded by closeSubGeometry after pushes and
\* an entry recorded by startSubGeometry, none with an excessive count.
C3_Witness ==
    \E fid \in FeatureIds : \E e1, e2 \in Entries(fid) :
        /\ e1[1] = e2[1]
        /\ e1 \in hist.closeEntries /\ Entry(fid, e1).count > 0
        /\ e2 \notin hist.closeEntries /\ Entry(fid, e2).count > 0
        /\ \A o \in hist.overCount : o[1] /= e1[1]

----------------------------------------------------------------------------
(* The FeatureCollection interface: requesting, referencing and cleaning up *)
(* Features.  removeEmptyFeature ends the population, as in                 *)
(* jsonFeaturesToFeatures, its caller.                                      *)

\* The types and ids callers ask for; 3 is no value of FEATURE_TYPES.
TypeInputs == {FEATURE_TYPES.POINT, FEATURE_TYPES.POLYGON, 3}
IdInputs == {Some("a"), Some("b")}

\* An object of another origin handed to newFeatureByReference, with a type
\* that is no value of FEATURE_TYPES.
ForeignFeature ==
    [type |-> 3, size |-> 2, store |-> 0, pos |-> 0, push3D |-> FALSE, id |-> Undefined,
     extent |-> Undefined, box |-> defaultExtent]

Call(op, type, id, r) ==
    [op |-> op, type |-> type, id |-> id, ret |-> r.ret, threw |-> r.threw,
     constructed |-> r.threw \/ Len(r.world.features) > Len(features),
     seen |-> (op = "requestFeatureByType" /\ \E p \in hist.byType : p[1] = type),
     before |-> collection.features]

InitCollection ==
    \E structure \in {"3d"}, merge \in {Undefined, Some(TRUE), Some(FALSE)} :
        LET w == EmptyWorld(Options(structure, merge, Undefined, FALSE))
        IN  /\ collection = w.collection
            /\ features = w.features
            /\ stores = w.stores
            /\ phase = "populate"
            /\ last = NoCall
            /\ hist = NoHist
            /\ meshes = <<>>

\* collection.requestFeatureByType(type)
RequestFeatureByType ==
    /\ phase = "populate"
    /\ \E type \in TypeInputs :
        LET r == requestFeatureByType(World, type)
        IN  /\ Len(r.world.features) <= MaxFeatures
            /\ SetWorld(r.world)
            /\ last' = Call("requestFeatureByType", type, Undefined, r)
            /\ hist' = IF r.threw THEN hist
                       ELSE [hist EXCEPT !.byType = @ \cup {<<type, Get(r.ret)>>},
                                         !.typeCalls =
                                             IF collection.mergeFeatures THEN @ ELSE @ + 1]
    /\ UNCHANGED <<phase, meshes>>

\* collection.requestFeatureById(id, type)
RequestFeatureById ==
    /\ phase = "populate"
    /\ \E id \in IdInputs, type \in TypeInputs :
        LET r == requestFeatureById(World, id, type)
        IN  /\ Len(r.world.features) <= MaxFeatures
            /\ SetWorld(r.world)
            /\ last' = Call("requestFeatureById", type, id, r)
    /\ UNCHANGED <<phase, hist, meshes>>

\* The caller of requestFeatureById labels the Feature it was handed:
\* `feature.id = id`.  Nothing else gives a Feature the id that
\* requestFeatureById looks for.
AssignFeatureId ==
    /\ phase = "populate"
    /\ last.op = "requestFeatureById"
    /\ IsDefined(last.ret)
    /\ features[Get(last.ret)].id /= last.id
    /\ features' = [features EXCEPT ![Get(last.ret)].id = last.id]
    /\ UNCHANGED <<collection, stores, phase, last, hist, meshes>>

\* collection.newFeatureByReference(feature)
NewFeatureByReference ==
    /\ phase = "populate"
    /\ \E feature \in {features[fid] : fid \in FeatureIds} \cup {ForeignFeature} :
        LET r == newFeatureByReference(World, feature)
        IN  /\ Len(r.world.features) <= MaxFeatures
            /\ SetWorld(r.world)
            /\ last' = Call("newFeatureByReference", feature.type, Undefined, r)
    /\ UNCHANGED <<phase, hist, meshes>>

\* feature.bindNewGeometry(), on a Feature of the collection.
BindGeometry ==
    /\ phase = "populate"
    /\ \E fid \in FeatureIds :
        /\ Len(StoreOf(fid).geometries) < MaxBindings
        /\ SetWorld(bindNewGeometry(World, fid))
    /\ last' = [NoCall EXCEPT !.op = "bindNewGeometry", !.before = collection.features]
    /\ UNCHANGED <<phase, hist, meshes>>

\* collection.removeEmptyFeature(), then the collection is handed over.
RemoveEmptyFeature ==
    /\ phase = "populate"
    /\ SetWorld(removeEmptyFeature(World))
    /\ phase' = "done"
    /\ last' = [NoCall EXCEPT !.op = "removeEmptyFeature", !.before = collection.features]
    /\ UNCHANGED <<hist, meshes>>

NextCollection ==
    \/ RequestFeatureByType
    \/ RequestFeatureById
    \/ AssignFeatureId
    \/ NewFeatureByReference
    \/ BindGeometry
    \/ RemoveEmptyFeature

SpecCollection == InitCollection /\ [][NextCollection]_vars

----------------------------------------------------------------------------
(* C4, C5, C8: the merge policy and the construction of Features.           *)

\* C4: with mergeFeatures = true, any two requestFeatureByType(t) calls with
\* the same t return the identical Feature and the second adds nothing to
\* collection.features; with mergeFeatures = false every call returns a new,
\* distinct Feature appended to collection.features.
C4_MergePolicy ==
    /\ collection.mergeFeatures =>
          /\ \A p, q \in hist.byType : p[1] = q[1] => p[2] = q[2]
          /\ (last.op = "requestFeatureByType" /\ last.seen)
                => (~last.threw /\ collection.features = last.before)
    /\ ~collection.mergeFeatures =>
          /\ Cardinality({p[2] : p \in hist.byType}) = hist.typeCalls
          /\ (last.op = "requestFeatureByType" /\ ~last.threw)
                => /\ \A k \in 1..Len(last.before) : last.before[k] /= Get(last.ret)
                   /\ collection.features = Append(last.before, Get(last.ret))

\* A merging collection holding two Features, whose second Feature was just
\* returned again by a repeated requestFeatureByType.
C4_Witness ==
    /\ collection.mergeFeatures
    /\ last.op = "requestFeatureByType" /\ last.seen /\ ~last.threw
    /\ Len(collection.features) >= 2
    /\ last.ret = Some(collection.features[2])

\* C5: on a merging collection, a requestFeatureById(id, type) call returns
\* an existing Feature only when it matches the id and the type, and the
\* Feature it returns always has the requested type.
C5_ByIdReturnsRequestedType ==
    (collection.mergeFeatures /\ last.op = "requestFeatureById" /\ ~last.threw) =>
        /\ features[Get(last.ret)].type = last.type
        /\ ~last.constructed => features[Get(last.ret)].id = last.id

\* C8: constructing a Feature succeeds exactly when its type is POINT, LINE
\* or POLYGON; otherwise it throws, and the collection's features list is
\* as it was before the call that triggered the construction.
C8_ConstructionSucceedsIffSupported ==
    last.constructed =>
        /\ last.threw <=>
              last.type \notin {FEATURE_TYPES.POINT, FEATURE_TYPES.LINE, FEATURE_TYPES.POLYGON}
        /\ last.threw => collection.features = last.before
        /\ ~last.threw =>
              /\ features[Get(last.ret)].type = last.type
              /\ collection.features = Append(last.before, Get(last.ret))

\* A collection holding a POINT Feature (type 0) it constructed, on which a
\* newFeatureByReference has just thrown for an unsupported type.
C8_Witness ==
    /\ last.op = "newFeatureByReference" /\ last.constructed /\ last.threw
    /\ \E k \in 1..Len(collection.features) :
          features[collection.features[k]].type = FEATURE_TYPES.POINT

----------------------------------------------------------------------------
(* The GeoJSON parser: from a JSON feature to the buffers of a Feature.     *)

\* One position of a GeoJSON geometry: [x, y], as the sequence <<x, y>>.
\* coord.setFromValues(pair[0], pair[1], pair[2]) with no third value gives
\* the coordinate the altitude 0.
setFromValues(pair) == Coord(pair[1], pair[2], 0)

\* Extent.isPointInside(coord): borders included.
isPointInside(extent, pair) ==
    /\ extent.west <= pair[1] /\ pair[1] <= extent.east
    /\ extent.south <= pair[2] /\ pair[2] <= extent.north

\* firstPtIsOut(extent, aCoords, crs): coord.setFromArray(aCoords[0]) reads
\* the elements of aCoords[0] and throws a TypeError when aCoords is empty.
firstPtIsOut(extent, aCoords) ==
    IF Len(aCoords) = 0 THEN [threw |-> TRUE, out |-> FALSE]
    ELSE [threw |-> FALSE, out |-> ~isPointInside(extent, aCoords[1])]

\* The world a parser step leaves, and whether it threw.
Outcome(w, threw) == [world |-> w, threw |-> threw, ret |-> Undefined]

\* The loop of populateGeometry: one pushCoordinates per pair.
RECURSIVE pushPairs(_, _, _)
pushPairs(w, fid, coordinates) ==
    IF coordinates = <<>> THEN w
    ELSE pushPairs(pushCoordinates(w, fid, setFromValues(Head(coordinates))),
                   fid, Tail(coordinates))

\* toFeature.populateGeometry(crsIn, coordinates, geometry, collection, feature)
populateGeometry(w, fid, gi, coordinates) ==
    LET feature == w.features[fid]
        w1 == [w EXCEPT !.stores[feature.store] =
                            startSubGeometry(@, gi, Len(coordinates), feature)]
    IN  pushPairs(w1, fid, coordinates)

\* feature.bindNewGeometry() followed by `geometry.properties = properties`:
\* the world and the index of the new geometry.
bindWithProperties(w, fid, properties) ==
    LET s == w.features[fid].store
        w1 == bindNewGeometry(w, fid)
        gi == Len(w1.stores[s].geometries)
    IN  [world |-> [w1 EXCEPT !.stores[s].geometries[gi].properties = properties],
         gi |-> gi]

\* A conversion that skips the filter test.
toFeature_defaultUnfiltered(w, fid, coordsIn, properties) ==
    LET b == bindWithProperties(w, fid, properties)
    IN  Outcome(populateGeometry(b.world, fid, b.gi, coordsIn), FALSE)

\* toFeature.default(feature, crsIn, coordsIn, collection, properties)
toFeature_default(w, fid, coordsIn, properties) ==
    LET c == w.collection
        f == IF IsDefined(c.filterExtent)
             THEN firstPtIsOut(Get(c.filterExtent), coordsIn)
             ELSE [threw |-> FALSE, out |-> FALSE]
    IN  IF f.threw THEN Outcome(w, TRUE)
        ELSE IF f.out THEN Outcome(w, FALSE)
        ELSE LET b == bindWithProperties(w, fid, properties)
             IN  Outcome(populateGeometry(b.world, fid, b.gi, coordsIn), FALSE)

\* toFeature.point(feature, crsIn, coordsIn, collection, properties)
toFeature_point(w, fid, coordsIn, properties) ==
    toFeature_default(w, fid, <<coordsIn>>, properties)

\* The ring loop of toFeature.polygon.
RECURSIVE populateRings(_, _, _, _)
populateRings(w, fid, gi, rings) ==
    IF rings = <<>> THEN w
    ELSE populateRings(populateGeometry(w, fid, gi, Head(rings)), fid, gi, Tail(rings))

\* toFeature.polygon(feature, crsIn, coordsIn, collection, properties): with
\* a filter extent, coordsIn[0] of an empty coordsIn is undefined and
\* firstPtIsOut throws on reading its first element.
toFeature_polygon(w, fid, coordsIn, properties) ==
    LET c == w.collection
        f == IF IsDefined(c.filterExtent)
             THEN IF Len(coordsIn) = 0 THEN [threw |-> TRUE, out |-> FALSE]
                  ELSE firstPtIsOut(Get(c.filterExtent), coordsIn[1])
             ELSE [threw |-> FALSE, out |-> FALSE]
    IN  IF f.threw THEN Outcome(w, TRUE)
        ELSE IF f.out THEN Outcome(w, FALSE)
        ELSE LET b == bindWithProperties(w, fid, properties)
             IN  Outcome(populateRings(b.world, fid, b.gi, coordsIn), FALSE)

\* toFeature[type](feature, crsIn, coords, collection, properties)
toFeature_member(type, w, fid, coords, properties) ==
    CASE type = "point" -> toFeature_point(w, fid, coords, properties)
      [] type = "default" -> toFeature_default(w, fid, coords, properties)
      [] type = "polygon" -> toFeature_polygon(w, fid, coords, properties)

\* toFeature.multi(type, feature, crsIn, coordsIn, collection, properties):
\* an exception of one member ends the loop.
RECURSIVE toFeature_multi(_, _, _, _, _)
toFeature_multi(type, w, fid, coordsIn, properties) ==
    IF coordsIn = <<>> THEN Outcome(w, FALSE)
    ELSE LET r == toFeature_member(type, w, fid, Head(coordsIn), properties)
         IN  IF r.threw THEN r
             ELSE toFeature_multi(type, r.world, fid, Tail(coordsIn), properties)

\* coordinatesToFeature(type, feature, crsIn, coordinates, collection, properties)
coordinatesToFeature(type, w, fid, coordinates, properties) ==
    IF Len(coordinates) = 0 THEN Outcome(w, FALSE)
    ELSE CASE type \in {"point", "linestring"} ->
                  toFeature_default(w, fid, coordinates, properties)
           [] type = "multipoint" ->
                  toFeature_multi("point", w, fid, coordinates, properties)
           [] type = "multilinestring" ->
                  toFeature_multi("default", w, fid, coordinates, properties)
           [] type = "polygon" ->
                  toFeature_polygon(w, fid, coordinates, properties)
           [] type = "multipolygon" ->
                  toFeature_multi("polygon", w, fid, coordinates, properties)
           [] OTHER -> Outcome(w, TRUE)

\* toFeatureType(jsonType): undefined stands for the thrown error.
toFeatureType(jsonType) ==
    CASE jsonType \in {"point", "multipoint"} -> Some(FEATURE_TYPES.POINT)
      [] jsonType \in {"linestring", "multilinestring"} -> Some(FEATURE_TYPES.LINE)
      [] jsonType \in {"polygon", "multipolygon"} -> Some(FEATURE_TYPES.POLYGON)
      [] OTHER -> Undefined

\* The Feature that requestFeatureByType handed out, fed with the
\* coordinates.
feedFeature(jsonType, f, coordinates, properties) ==
    [coordinatesToFeature(jsonType, f.world, Get(f.ret), coordinates, properties)
        EXCEPT !.ret = f.ret]

\* jsonFeatureToFeature(crsIn, json, collection): the world it leaves, the
\* Feature it fed and whether it threw.
jsonFeatureToFeature(w, json) ==
    IF ~IsDefined(toFeatureType(json.type)) THEN Result(w, Undefined, TRUE)
    ELSE feedFeature(json.type,
                     requestFeatureByType(w, Get(toFeatureType(json.type))),
                     IF json.type /= "point" THEN json.coordinates
                     ELSE <<json.coordinates>>,
                     json.properties)

----------------------------------------------------------------------------
(* Feature2Mesh: typed arrays and the arithmetic of their elements.         *)

\* A number that may be NaN: NaN is the empty slot read as a number.
NaN == Hole

\* array[i] with a 0-based index: undefined outside the array.
At(arr, i) == IF i + 1 \in 1..Len(arr) THEN arr[i + 1] ELSE Hole

FAdd(a, b) == IF a = NaN \/ b = NaN THEN NaN ELSE Num(Get(a) + Get(b))
FMul(a, b) == IF a = NaN \/ b = NaN THEN NaN ELSE Num(Get(a) * Get(b))
FSub(a, b) == IF a = NaN \/ b = NaN THEN NaN ELSE Num(Get(a) - Get(b))

\* new Float32Array(length): zero-filled, of fixed length.
Float32Zeros(n) == AsSeq([i \in 1..n |-> Num(0)])

\* new Float32Array(array): an empty slot becomes NaN; the integers stored
\* here are far below 2^24 and keep their value.
Float32Array(arr) ==
    AsSeq([i \in 1..Len(arr) |-> IF arr[i] = Hole THEN NaN ELSE arr[i]])

\* typedArray.slice(from, to), 0-based and clamped to the array.
Slice(arr, from, to) ==
    LET lo == IF from < 0 THEN 0 ELSE from
        hi == IF to > Len(arr) THEN Len(arr) ELSE to
    IN  IF hi <= lo THEN <<>> ELSE AsSeq([k \in 1..(hi - lo) |-> arr[lo + k]])

\* The width of the index arrays.
Uint16Modulus == 65536
MaxUint16 == 65535

\* The elements of new Uint16Array(array): an empty slot becomes 0, a
\* number is stored modulo 2^16.
Uint16Array(arr) ==
    AsSeq([i \in 1..Len(arr) |->
              IF arr[i] = Hole THEN 0 ELSE Get(arr[i]) % Uint16Modulus])

\* The style collaborator.  drawingStylefromContext(ctx) resolves the
\* geometry's properties to a drawing style, or to nothing.
drawingStylefromContext(properties) == properties.styled

\* feature.style.fill.extrusion_height(properties)
ExtrusionHeight == 1

\* feature.altitude.min, undefined standing for Infinity.  Positions parsed
\* from GeoJSON carry the altitude 0, so the minimum of a 3D Feature is 0 as
\* soon as one coordinate was pushed, and Infinity before and in 2D.
altitudeMin(w, fid) ==
    IF w.features[fid].size = 3 /\ w.features[fid].pos > 0 THEN Some(0) ELSE Undefined

\* coordinatesToVertices reads normals[i] in every turn of its loop: a
\* TypeError when the Feature has no normals and the loop is entered.
readsMissingNormals(normals, countIn) == countIn > 0 /\ ~IsDefined(normals)

\* coordinatesToVertices(ptsIn, normals, target, altitude, extrude,
\* offsetOut, countIn, startIn): the target after the loop.
coordinatesToVertices(ptsIn, normals, target, altitude, extrude, offsetOut, countIn, startIn) ==
    AsSeq([k \in 1..Len(target) |->
              LET m == k - 1 - offsetOut * 3
              IN  IF m >= 0 /\ m < countIn * 3
                  THEN FAdd(At(ptsIn, startIn * 3 + m),
                            FMul(At(Get(normals), startIn * 3 + m),
                                 Num(extrude - altitude)))
                  ELSE target[k]])

\* A render primitive: its class, the position attribute, the index,
\* whether a warning was logged while building it, and the Feature that
\* featureToMesh attaches to it.  Colours and batch ids are left out.
Primitive(kind, position, index, warned) ==
    [kind |-> kind, position |-> position, index |-> index, warned |-> warned,
     feature |-> Undefined]

\* new THREE.Mesh(): a mesh over an empty geometry.
EmptyMesh == Primitive("Mesh", Undefined, Undefined, FALSE)

\* What a conversion returns: a primitive, undefined, or an exception.
Returned(mesh) == [threw |-> FALSE, mesh |-> Some(mesh)]
ReturnedNothing == [threw |-> FALSE, mesh |-> Undefined]
Thrown == [threw |-> TRUE, mesh |-> Undefined]

----------------------------------------------------------------------------
(* Feature2Mesh: lines.                                                     *)

\* The integer a typed-array constructor makes of the length num / den.
Trunc(num, den) == IF num >= 0 THEN num \div den ELSE -((-num) \div den)

\* new Uint16Array(length)
Uint16Zeros(n) == AsSeq([i \in 1..n |-> 0])

\* An inner loop that stops at the end of the range only: without the test
\* j < 0xffff.
lineEdgesUnbounded(acc, start, end) ==
    LET e == IF end - 1 > start THEN end - 1 - start ELSE 0
    IN  [acc EXCEPT
            !.indices = AsSeq([k \in 1..Len(@) |->
                                  IF k - 1 - acc.i >= 0 /\ k - 1 - acc.i < 2 * e
                                  THEN (start + (k - acc.i) \div 2) % Uint16Modulus
                                  ELSE @[k]]),
            !.i = @ + 2 * e]

\* The inner loop of featureToLine over [start, end): for j from start,
\* while j < end - 1 and j < 0xffff, indices[i++] = j; indices[i++] = j + 1.
\* A write past the fixed length of the array is dropped, i still advances.
lineEdges(acc, start, end) ==
    LET stop == IF end - 1 < MaxUint16 THEN end - 1 ELSE MaxUint16
        e == IF stop > start THEN stop - start ELSE 0
    IN  [acc EXCEPT
            !.indices = AsSeq([k \in 1..Len(@) |->
                                  IF k - 1 - acc.i >= 0 /\ k - 1 - acc.i < 2 * e
                                  THEN (start + (k - acc.i) \div 2) % Uint16Modulus
                                  ELSE @[k]]),
            !.i = @ + 2 * e]

\* The loop of the multi line case over feature.geometries.
RECURSIVE multiLine(_, _)
multiLine(geometries, acc) ==
    IF geometries = <<>> THEN acc
    ELSE LET geometry == Head(geometries)
         IN  IF ~drawingStylefromContext(geometry.properties)
             THEN multiLine(Tail(geometries), acc)
             ELSE IF Len(geometry.indices) = 0 THEN [acc EXCEPT !.threw = TRUE]
             ELSE IF geometry.indices[1].offset > MaxUint16
             THEN [acc EXCEPT !.warned = TRUE]
             ELSE multiLine(Tail(geometries),
                      lineEdges(acc, geometry.indices[1].offset,
                                geometry.indices[1].offset + geometry.indices[1].count))

\* new THREE.LineSegments(geom, lineMaterial) over what the loop left.
lineSegments(position, acc) ==
    IF acc.threw THEN Thrown
    ELSE Returned(Primitive("LineSegments", Some(position), Some(acc.indices), acc.warned))

\* The position attribute of featureToLine: the vertices moved along their
\* normals when the Feature has an altitude, a copy of them otherwise.
linePosition(ptsIn, normals, alt) ==
    IF IsDefined(alt)
    THEN coordinatesToVertices(ptsIn, normals, Float32Zeros(Len(ptsIn)),
                               Get(alt), 0, 0, Len(ptsIn) \div 3, 0)
    ELSE Float32Array(ptsIn)

\* featureToLine(feature, options, context).  `count` is ptsIn.length / 3
\* whatever the size of the Feature, so countIndices is
\* (ptsIn.length / 3 - geometries.length) * 2, truncated by the typed array
\* constructor, which throws a RangeError on a negative length.
featureToLine(w, fid) ==
    LET st == w.stores[w.features[fid].store]
        ptsIn == st.vertices
        alt == altitudeMin(w, fid)
        n == Len(st.geometries)
        countIndices == Trunc(2 * Len(ptsIn) - 6 * n, 3)
    IN  IF IsDefined(alt) /\ readsMissingNormals(st.normals, Len(ptsIn) \div 3)
        THEN Thrown
        ELSE IF n > 1
        THEN IF countIndices < 0 THEN Thrown
             ELSE lineSegments(linePosition(ptsIn, st.normals, alt),
                      multiLine(st.geometries,
                                [i |-> 0, indices |-> Uint16Zeros(countIndices),
                                 warned |-> FALSE, threw |-> FALSE]))
        ELSE IF n = 0 THEN Thrown
        ELSE IF drawingStylefromContext(st.geometries[1].properties)
        THEN Returned(Primitive("Line", Some(linePosition(ptsIn, st.normals, alt)),
                                Undefined, FALSE))
        ELSE ReturnedNothing

----------------------------------------------------------------------------
(* Feature2Mesh: polygons.                                                  *)

\* The number of points of the outer ring that Earcut triangulates.
uniquePoints(data, dim, outer) ==
    IF /\ outer >= 2
       /\ data[1] = data[(outer - 1) * dim + 1]
       /\ data[2] = data[(outer - 1) * dim + 2]
    THEN outer - 1 ELSE outer

\* A fan of unique - 2 triangles around point 0.
fan(unique) ==
    IF unique < 3 THEN <<>>
    ELSE AsSeq([k \in 1..(3 * (unique - 2)) |->
                   IF (k - 1) % 3 = 0 THEN 0 ELSE ((k - 1) \div 3) + ((k - 1) % 3)])

\* Earcut(data, holeIndices, dim), the triangulation collaborator: a fan
\* over the outer ring, whose closing point is dropped when it repeats the
\* first one.  The result indexes the points of data from 0.
Earcut(data, holeIndices, dim) ==
    LET n == Len(data) \div dim
        h == IF holeIndices = <<>> THEN n ELSE holeIndices[1]
    IN  fan(uniquePoints(data, dim, IF h > n THEN n ELSE IF h < 0 THEN 0 ELSE h))

\* geometry.indices.map(i => i.offset - start).slice(1)
holesOffsets(geometry, start) ==
    [k \in 1..(Len(geometry.indices) - 1) |-> geometry.indices[k + 1].offset - start]

\* Triangles appended as the triangulation returns them, relative to the
\* outer ring.
appendTrianglesRelative(indices, triangles, start) ==
    indices \o [k \in 1..Len(triangles) |-> Num(triangles[k])]

\* indices.length += triangles.length, then indices[startIndice + i] =
\* triangles[i] + start.
appendTriangles(indices, triangles, start) ==
    indices \o [k \in 1..Len(triangles) |-> Num(triangles[k] + start)]

\* lastIndice.offset + lastIndice.count
endOf(geometry) ==
    geometry.indices[Len(geometry.indices)].offset
        + geometry.indices[Len(geometry.indices)].count

\* The loop of featureToPolygon over feature.geometries.  A geometry whose
\* style resolves to nothing makes `contextStyle.fill` throw.
RECURSIVE polygonLoop(_, _, _)
polygonLoop(geometries, vertices, acc) ==
    IF geometries = <<>> THEN acc
    ELSE LET geometry == Head(geometries)
         IN  IF Len(geometry.indices) = 0 THEN [acc EXCEPT !.threw = TRUE]
             ELSE IF geometry.indices[1].offset > MaxUint16
             THEN [acc EXCEPT !.warned = TRUE]
             ELSE IF ~drawingStylefromContext(geometry.properties)
             THEN [acc EXCEPT !.threw = TRUE]
             ELSE LET start == geometry.indices[1].offset
                      geomVertices == Slice(vertices, start * 3, endOf(geometry) * 3)
                      triangles == Earcut(geomVertices, holesOffsets(geometry, start), 3)
                  IN  polygonLoop(Tail(geometries), vertices,
                          [acc EXCEPT !.indices = appendTriangles(@, triangles, start)])

\* new THREE.Mesh(geom, material) over the vertices and
\* new Uint16Array(indices).
polygonMesh(vertices, acc) ==
    IF acc.threw THEN Thrown
    ELSE Returned(Primitive("Mesh", Some(vertices), Some(Uint16Array(acc.indices)),
                            acc.warned))

\* featureToPolygon(feature, options, context)
featureToPolygon(w, fid) ==
    LET st == w.stores[w.features[fid].store]
    IN  polygonMesh(Float32Array(st.vertices),
                    polygonLoop(st.geometries, Float32Array(st.vertices),
                                [indices |-> <<>>, warned |-> FALSE, threw |-> FALSE]))

\* The loop of area(contour, offset, count), from p and q up to n.
RECURSIVE areaLoop(_, _, _, _, _)
areaLoop(contour, p, q, n, a) ==
    IF q >= n THEN a
    ELSE areaLoop(contour, q, q + 3, n,
             FAdd(a, FSub(FMul(At(contour, p), At(contour, q + 1)),
                          FMul(At(contour, q), At(contour, p + 1)))))

\* area(contour, offset, count): the sum a of the loop; the function returns
\* a * 0.5, of the same sign.
area(contour, offset, count) ==
    areaLoop(contour, count * 3 + offset * 3 - 3, offset * 3, count * 3, Num(0))

\* `area(ptsIn, offset, count) < 0`: false for NaN.
isNegative(a) == a /= NaN /\ Get(a) < 0

\* Side faces with the two vertex orders exchanged.
sideFaceSwapped(i, length, isClockWise) ==
    IF isClockWise
    THEN <<i + length, i, i + length + 1, i + length + 1, i, i + 1>>
    ELSE <<i, i + length, i + 1, i + 1, i + length, i + length + 1>>

\* The six indices written for the side face at i.
sideFace(i, length, isClockWise) ==
    IF isClockWise
    THEN <<i, i + length, i + 1, i + 1, i + length, i + length + 1>>
    ELSE <<i + length, i, i + length + 1, i + length + 1, i, i + 1>>

\* The loop of addExtrudedPolygonSideFaces from point i and slot j on: the
\* turn for point i + q writes the six indices of its side face into the
\* slots j + 6 * q to j + 6 * q + 5, growing the array where a slot is past
\* its end.
sideFacesLoop(indices, length, i, j, stop, isClockWise) ==
    LET turns == IF stop > i THEN stop - i ELSE 0
        slots == IF turns > 0 /\ j + 6 * turns > Len(indices)
                 THEN j + 6 * turns ELSE Len(indices)
    IN  AsSeq([k \in 1..slots |->
                  IF k - 1 >= j /\ k - 1 < j + 6 * turns
                  THEN Num(sideFace(i + ((k - 1 - j) \div 6), length,
                                    isClockWise)[((k - 1 - j) % 6) + 1])
                  ELSE IF k <= Len(indices) THEN indices[k] ELSE Hole])

\* Side faces that close the ring: count quads, the last one from the last
\* point on.
addExtrudedPolygonSideFacesClosed(indices, length, offset, count, isClockWise) ==
    [threw |-> FALSE,
     indices |-> sideFacesLoop(SetLength(indices, Len(indices) + count * 6),
                               length, offset, Len(indices), offset + count,
                               isClockWise)]

\* addExtrudedPolygonSideFaces(indices, length, offset, count, isClockWise):
\* `indices.length += (count - 1) * 6` truncates the array when count is 0
\* and throws a RangeError when the new length is negative.
addExtrudedPolygonSideFaces(indices, length, offset, count, isClockWise) ==
    IF Len(indices) + (count - 1) * 6 < 0 THEN [threw |-> TRUE, indices |-> indices]
    ELSE [threw |-> FALSE,
          indices |-> sideFacesLoop(SetLength(indices, Len(indices) + (count - 1) * 6),
                                    length, offset, Len(indices), offset + count - 1,
                                    isClockWise)]

\* The loop over geometry.indices calling addExtrudedPolygonSideFaces.
RECURSIVE ringsSideFaces(_, _, _, _)
ringsSideFaces(rings, r, length, isClockWise) ==
    IF rings = <<>> \/ r.threw THEN r
    ELSE ringsSideFaces(Tail(rings),
             addExtrudedPolygonSideFaces(r.indices, length, Head(rings).offset,
                                         Head(rings).count, isClockWise),
             length, isClockWise)

\* The two coordinatesToVertices calls of one geometry: the floor copy at
\* [start, end) and the roof copy at [start, end) + totalVertices.
extrudeVertices(ptsIn, normals, vertices, delta, start, count, totalVertices) ==
    coordinatesToVertices(ptsIn, normals,
        coordinatesToVertices(ptsIn, normals, vertices, delta, 0, start, count, start),
        delta, ExtrusionHeight, start + totalVertices, count, start)

\* The roof triangles of one geometry, then the side faces of its rings.
extrudeIndices(geometry, indices, vertices, start, totalVertices, isClockWise) ==
    ringsSideFaces(geometry.indices,
        [threw |-> FALSE,
         indices |-> appendTriangles(indices,
                         Earcut(Slice(vertices, (start + totalVertices) * 3,
                                      (endOf(geometry) + totalVertices) * 3),
                                holesOffsets(geometry, start), 3),
                         start + totalVertices)],
        totalVertices, isClockWise)

\* One turn of the loop of featureToExtrudedPolygon, given the vertices the
\* turn has written.
withVertices(sides, vertices) ==
    [vertices |-> vertices, indices |-> sides.indices, threw |-> sides.threw]

extrudeGeometry(geometry, acc, vertices, totalVertices, isClockWise) ==
    withVertices(extrudeIndices(geometry, acc.indices, vertices,
                                geometry.indices[1].offset, totalVertices, isClockWise),
                 vertices)

\* The loop of featureToExtrudedPolygon over feature.geometries.
RECURSIVE extrudedLoop(_, _, _, _, _, _, _)
extrudedLoop(geometries, ptsIn, normals, totalVertices, delta, isClockWise, acc) ==
    IF geometries = <<>> \/ acc.threw THEN acc
    ELSE LET geometry == Head(geometries)
         IN  IF Len(geometry.indices) = 0 THEN [acc EXCEPT !.threw = TRUE]
             ELSE LET start == geometry.indices[1].offset
                      count == endOf(geometry) - start
                  IN  IF readsMissingNormals(normals, count)
                      THEN [acc EXCEPT !.threw = TRUE]
                      ELSE extrudedLoop(Tail(geometries), ptsIn, normals, totalVertices,
                               delta, isClockWise,
                               extrudeGeometry(geometry, acc,
                                   extrudeVertices(ptsIn, normals, acc.vertices, delta,
                                                   start, count, totalVertices),
                                   totalVertices, isClockWise))

\* new THREE.Mesh(geom, material) over the doubled vertices.
extrudedMesh(acc) ==
    IF acc.threw THEN Thrown
    ELSE Returned(Primitive("Mesh", Some(acc.vertices), Some(Uint16Array(acc.indices)),
                            FALSE))

\* featureToExtrudedPolygon(feature, options): the winding is that of the
\* first ring of the first geometry.  totalVertices is ptsIn.length / 3; a
\* Feature of size 2 throws before the quotient is used.
featureToExtrudedPolygon(w, fid) ==
    LET st == w.stores[w.features[fid].store]
        ptsIn == st.vertices
        alt == altitudeMin(w, fid)
    IN  IF Len(st.geometries) = 0 THEN Thrown
        ELSE IF Len(st.geometries[1].indices) = 0 THEN Thrown
        ELSE extrudedMesh(
                 extrudedLoop(st.geometries, ptsIn, st.normals, Len(ptsIn) \div 3,
                     IF IsDefined(alt) THEN Get(alt) ELSE 0,
                     isNegative(area(ptsIn, st.geometries[1].indices[1].offset,
                                     st.geometries[1].indices[1].count)),
                     [vertices |-> Float32Zeros(Len(ptsIn) * 2),
                      indices |-> <<>>, threw |-> FALSE]))

\* The end of featureToMesh: `mesh || new THREE.Mesh()` fills in for an
\* undefined mesh, and the Feature is attached to the result.
attachFeature(r, fid) ==
    IF r.threw THEN Thrown
    ELSE Returned([(IF IsDefined(r.mesh) THEN Get(r.mesh) ELSE EmptyMesh)
                      EXCEPT !.feature = Some(fid)])

\* featureToMesh(feature, options, context): the POINT case assigns nothing
\* to mesh.
featureToMesh(w, fid) ==
    attachFeature(
        CASE w.features[fid].type = FEATURE_TYPES.POINT -> ReturnedNothing
          [] w.features[fid].type = FEATURE_TYPES.LINE -> featureToLine(w, fid)
          [] w.features[fid].type = FEATURE_TYPES.POLYGON ->
                 IF w.collection.style.extrusion
                 THEN featureToExtrudedPolygon(w, fid)
                 ELSE featureToPolygon(w, fid)
          [] OTHER -> ReturnedNothing,
        fid)

\* group.add(mesh), or the propagation of an exception.
addMesh(acc, r) ==
    IF r.threw THEN [acc EXCEPT !.threw = TRUE]
    ELSE [acc EXCEPT !.children = Append(@, Get(r.mesh))]

\* The loop of featuresToThree: one featureToMesh per Feature, in order.
RECURSIVE meshAll(_, _, _)
meshAll(w, fids, acc) ==
    IF fids = <<>> \/ acc.threw THEN acc
    ELSE meshAll(w, Tail(fids), addMesh(acc, featureToMesh(w, Head(fids))))

\* What featuresToThree returns: nothing for no Feature, the mesh for one
\* Feature, a group of the meshes otherwise.
returnedBy(acc, fids) ==
    [threw |-> acc.threw,
     returned |-> IF acc.threw \/ Len(fids) = 0 THEN "nothing"
                  ELSE IF Len(fids) = 1 THEN "mesh" ELSE "group",
     children |-> IF acc.threw THEN <<>> ELSE acc.children]

\* featuresToThree(features, options, context)
featuresToThree(w, fids) ==
    returnedBy(meshAll(w, fids, [threw |-> FALSE, children |-> <<>>]), fids)

----------------------------------------------------------------------------
(* The pipeline: jsonFeaturesToFeatures parses a list of GeoJSON features   *)
(* into a collection, featuresToThree converts the collection's Features.   *)

\* The filter extent the parser may be configured with.
FilterExtent == [west |-> 0, east |-> 5, south |-> 0, north |-> 5]

Json(type, coordinates, styled) ==
    [type |-> type, coordinates |-> coordinates, properties |-> [styled |-> styled]]

Square == <<<<0, 0>>, <<1, 0>>, <<1, 1>>, <<0, 1>>, <<0, 0>>>>
Triangle == <<<<1, 1>>, <<2, 1>>, <<2, 2>>, <<1, 1>>>>

\* The GeoJSON features fed to the parser: positions inside and outside
\* FilterExtent, empty lists at every level, and an unhandled type.
JsonInputs ==
    << Json("point", <<1, 1>>, TRUE),
       Json("point", <<9, 9>>, TRUE),
       Json("linestring", <<<<1, 1>>, <<2, 1>>, <<2, 2>>>>, TRUE),
       Json("linestring", <<<<9, 9>>, <<2, 1>>>>, TRUE),
       Json("linestring", <<<<1, 2>>, <<2, 2>>>>, FALSE),
       Json("linestring", <<>>, TRUE),
       Json("multilinestring", <<<<<<1, 1>>, <<2, 1>>, <<2, 2>>>>, <<>>>>, TRUE),
       Json("multilinestring", <<<<<<9, 9>>, <<1, 1>>>>, <<<<1, 1>>, <<1, 2>>>>>>, TRUE),
       Json("multipoint", <<<<1, 1>>, <<9, 9>>>>, TRUE),
       Json("polygon", <<Square>>, TRUE),
       Json("polygon", <<<<<<9, 9>>, <<9, 8>>, <<8, 8>>, <<9, 9>>>>>>, TRUE),
       Json("polygon", <<Triangle, <<>>>>, TRUE),
       Json("multipolygon", <<<<Triangle>>, <<>>>>, TRUE),
       Json("geometrycollection", <<>>, TRUE),
       Json("polygon", <<<<<<0, 0>>, <<0, 1>>, <<1, 1>>, <<1, 0>>, <<0, 0>>>>>>, TRUE) >>

NoParse == [op |-> "none", json |-> 0, ret |-> Undefined, threw |-> FALSE,
            world |-> EmptyWorld(Options("3d", Undefined, Undefined, FALSE))]

\* new FeatureCollection(options) at the start of jsonFeaturesToFeatures.
InitPipeline ==
    \E structure \in {"2d", "3d"}, merge \in BOOLEAN, extrusion \in BOOLEAN,
       filterExtent \in {Undefined, Some(FilterExtent)} :
        LET w == EmptyWorld(Options(structure, Some(merge), filterExtent, extrusion))
        IN  /\ collection = w.collection
            /\ features = w.features
            /\ stores = w.stores
            /\ phase = "parse"
            /\ last = NoParse
            /\ hist = NoHist
            /\ meshes = <<>>

\* One turn of the loop of jsonFeaturesToFeatures.  An exception ends the
\* parse.
Parsed(k, r) ==
    /\ SetWorld(r.world)
    /\ last' = [op |-> "jsonFeatureToFeature", json |-> k, ret |-> r.ret,
                threw |-> r.threw, world |-> World]
    /\ phase' = IF r.threw THEN "failed" ELSE "parse"

JsonFeatureToFeature ==
    /\ phase = "parse"
    /\ hist.calls < MaxJson
    /\ \E k \in 1..Len(JsonInputs) : Parsed(k, jsonFeatureToFeature(World, JsonInputs[k]))
    /\ Called
    /\ UNCHANGED meshes

\* The end of jsonFeaturesToFeatures: collection.removeEmptyFeature().
FinishParse ==
    /\ phase = "parse"
    /\ SetWorld(removeEmptyFeature(World))
    /\ phase' = "parsed"
    /\ last' = [NoParse EXCEPT !.op = "removeEmptyFeature", !.world = World]
    /\ UNCHANGED <<hist, meshes>>

\* featuresToThree(collection.features, options, context)
FeaturesToThree ==
    /\ phase = "parsed"
    /\ meshes' = featuresToThree(World, collection.features)
    /\ phase' = IF meshes'.threw THEN "failed" ELSE "converted"
    /\ last' = [NoParse EXCEPT !.op = "featuresToThree", !.world = World]
    /\ UNCHANGED <<collection, features, stores, hist>>

NextPipeline ==
    \/ JsonFeatureToFeature
    \/ FinishParse
    \/ FeaturesToThree

SpecPipeline == InitPipeline /\ [][NextPipeline]_vars

----------------------------------------------------------------------------
(* C6, C7: what the parser does with filtered and with empty geometries.    *)

\* The position lies outside the extent.
Outside(extent, pair) ==
    \/ pair[1] < extent.west \/ pair[1] > extent.east
    \/ pair[2] < extent.south \/ pair[2] > extent.north

SimpleTypes == {"point", "linestring", "polygon"}
MultiTypes == {"multipoint", "multilinestring", "multipolygon"}

\* The first point of a simple geometry given by its type and coordinates:
\* for a polygon, the first point of its outer ring.
HasFirstPoint(type, coordinates) ==
    CASE type \in {"point", "multipoint"} -> TRUE
      [] type \in {"linestring", "multilinestring"} -> Len(coordinates) > 0
      [] type \in {"polygon", "multipolygon"} ->
             Len(coordinates) > 0 /\ Len(coordinates[1]) > 0

FirstPoint(type, coordinates) ==
    CASE type \in {"point", "multipoint"} -> coordinates
      [] type \in {"linestring", "multilinestring"} -> coordinates[1]
      [] type \in {"polygon", "multipolygon"} -> coordinates[1][1]

\* A multi-geometry without the members whose first point lies outside.
KeepInside(json, extent) ==
    [json EXCEPT !.coordinates =
        SelectSeq(@, LAMBDA member : ~Outside(extent, FirstPoint(json.type, member)))]

\* C6: with a filter extent configured, converting a geometry whose first
\* point (for a polygon, the first point of its outer ring) lies outside the
\* extent binds no FeatureGeometry and leaves the vertices, the normals, the
\* write position and the geometries of the target Feature as they were: a
\* simple geometry leaves the world as requestFeatureByType left it, and a
\* multi-geometry leaves it as the conversion of its other members does.
C6_FilteredGeometryLeavesFeatureUnchanged ==
    (last.op = "jsonFeatureToFeature" /\ IsDefined(collection.filterExtent)) =>
        LET json == JsonInputs[last.json]
            extent == Get(collection.filterExtent)
        IN  /\ ( /\ json.type \in SimpleTypes
                 /\ HasFirstPoint(json.type, json.coordinates)
                 /\ Outside(extent, FirstPoint(json.type, json.coordinates)) )
               => /\ ~last.threw
                  /\ World = requestFeatureByType(
                                 last.world, Get(toFeatureType(json.type))).world
            /\ ( /\ json.type \in MultiTypes
                 /\ \A i \in 1..Len(json.coordinates) :
                        HasFirstPoint(json.type, json.coordinates[i]) )
               => /\ ~last.threw
                  /\ World = jsonFeatureToFeature(last.world, KeepInside(json, extent)).world

\* A filtered geometry was just converted into a Feature that already held
\* vertices: a simple geometry starting outside the extent, or a
\* multi-geometry with a member starting outside.
C6_Witness ==
    /\ last.op = "jsonFeatureToFeature" /\ IsDefined(collection.filterExtent)
    /\ ~last.threw
    /\ Get(last.ret) \in DOMAIN last.world.features
    /\ Len(last.world.stores[last.world.features[Get(last.ret)].store].vertices) > 0
    /\ LET json == JsonInputs[last.json]
       IN  /\ json.type = "linestring"
           /\ Len(json.coordinates) > 0
           /\ Outside(Get(collection.filterExtent), json.coordinates[1])

\* The geometry holds an empty coordinate list at some level.
HasEmptyList(json) ==
    CASE json.type \in {"linestring", "multipoint"} -> Len(json.coordinates) = 0
      [] json.type \in {"multilinestring", "polygon"} ->
             \/ Len(json.coordinates) = 0
             \/ \E i \in 1..Len(json.coordinates) : Len(json.coordinates[i]) = 0
      [] json.type = "multipolygon" ->
             \/ Len(json.coordinates) = 0
             \/ \E i \in 1..Len(json.coordinates) :
                   \/ Len(json.coordinates[i]) = 0
                   \/ \E j \in 1..Len(json.coordinates[i]) :
                         Len(json.coordinates[i][j]) = 0
      [] OTHER -> FALSE

NonEmpty(lists) == SelectSeq(lists, LAMBDA list : Len(list) > 0)

\* The geometry without its empty coordinate lists.
StripEmpty(json) ==
    CASE json.type \in {"multilinestring", "polygon"} ->
             [json EXCEPT !.coordinates = NonEmpty(@)]
      [] json.type = "multipolygon" ->
             [json EXCEPT !.coordinates =
                 NonEmpty([i \in 1..Len(@) |-> NonEmpty(@[i])])]
      [] OTHER -> json

\* C7: an empty coordinate list at any level of a geometry is a no-op, with
\* or without a filter extent: the conversion raises no error and leaves the
\* world as the conversion of the geometry without its empty lists does (no
\* FeatureGeometry bound, no SubGeometryIndex recorded for an empty list).
C7_EmptyCoordinateListIsNoOp ==
    (last.op = "jsonFeatureToFeature" /\ HasEmptyList(JsonInputs[last.json])) =>
        /\ ~last.threw
        /\ World = jsonFeatureToFeature(last.world, StripEmpty(JsonInputs[last.json])).world

----------------------------------------------------------------------------
(* C9, C10: the primitives featuresToThree returns.                         *)

\* The primitives of the last conversion.
Children == 1..Len(meshes.children)

\* C9: featureToMesh yields a point cloud holding the Feature's vertices for
\* a POINT Feature, a line primitive for a LINE Feature, and for a POLYGON
\* Feature a mesh over twice the vertices when the style supplies an
\* extrusion height and over the vertices otherwise; no Feature yields an
\* empty primitive.
C9_FeatureToMeshDispatch ==
    phase = "converted" =>
        \A i \in Children :
            LET mesh == meshes.children[i]
                feature == features[Get(mesh.feature)]
                ptsIn == StoreOf(Get(mesh.feature)).vertices
            IN  /\ IsDefined(mesh.position)
                /\ feature.type = FEATURE_TYPES.POINT =>
                      /\ mesh.kind = "Points"
                      /\ Get(mesh.position) = Float32Array(ptsIn)
                /\ feature.type = FEATURE_TYPES.LINE =>
                      mesh.kind \in {"Line", "LineSegments"}
                /\ feature.type = FEATURE_TYPES.POLYGON =>
                      /\ mesh.kind = "Mesh"
                      /\ Len(Get(mesh.position)) =
                            IF collection.style.extrusion THEN 2 * Len(ptsIn)
                            ELSE Len(ptsIn)

\* The edges (i, i + 1) inside the range of every geometry.
ExpectedEdges(geometries) ==
    UNION {{<<v, v + 1>> : v \in geometries[g].indices[1].offset ..
                                 (geometries[g].indices[1].offset
                                     + geometries[g].indices[1].count - 2)} :
              g \in 1..Len(geometries)}

\* The index array read as pairs.
EmittedEdges(index) == {<<index[2 * k - 1], index[2 * k]>> : k \in 1..(Len(index) \div 2)}

\* C10: for a LINE Feature of two or more geometries, all styled and below
\* the index limit, featureToLine emits for every geometry of range
\* [start, end) exactly the edges (i, i + 1) with i in [start, end - 1): the
\* index array holds these edges and nothing else, one pair each.
C10_MultiLineEdges ==
    phase = "converted" =>
        \A i \in Children :
            LET mesh == meshes.children[i]
                fid == Get(mesh.feature)
                geometries == StoreOf(fid).geometries
            IN  ( /\ features[fid].type = FEATURE_TYPES.LINE
                  /\ Len(geometries) >= 2
                  /\ \A g \in 1..Len(geometries) :
                        /\ drawingStylefromContext(geometries[g].properties)
                        /\ Len(geometries[g].indices) = 1
                  /\ VertexCount(fid) < MaxUint16 )
                => /\ mesh.kind = "LineSegments"
                   /\ EmittedEdges(Get(mesh.index)) = ExpectedEdges(geometries)
                   /\ Len(Get(mesh.index)) = 2 * Cardinality(ExpectedEdges(geometries))

----------------------------------------------------------------------------
(* Features at the limit of the 16-bit index: one LINE or POLYGON Feature   *)
(* is populated with geometries of a few or of about 2^16 vertices, then    *)
(* handed to featuresToThree.  The arrays of such a Feature and of its      *)
(* primitive are kept in the state in run-length form, and every operation  *)
(* is applied to the arrays themselves.                                     *)

MaxLargeGeometries == 3     \* geometries bound to the Feature
MaxLargeVertices == 65540   \* vertices the Feature may hold

\* The vertex counts of the geometries.
LargeCounts == {3, 65534, 65536}

\* The elements of a small set of integers in increasing order.
Ascending(S) ==
    [i \in 1..Cardinality(S) |-> CHOOSE k \in S : Cardinality({j \in S : j < k}) = i - 1]

\* The period of the runs of a buffer of slots: the three components of a
\* vertex or of a normal.  The stride of the runs of an index array: the six
\* indices of a side face, which hold three pairs of a line or two
\* triangles.
SlotPeriod == Len(defaultNormal)
IndexStride == Len(sideFace(0, 0, TRUE))

\* The runs that start at `starts`, each with the first `width` elements
\* from its start on.
RunsFrom(arr, starts, width) ==
    [length |-> Len(arr),
     runs |-> [i \in 1..Len(starts) |->
                  [at |-> starts[i],
                   head |-> SubSeq(arr, starts[i],
                                   IF starts[i] + width - 1 > Len(arr) THEN Len(arr)
                                   ELSE starts[i] + width - 1)]]]

\* A buffer of slots as runs of period SlotPeriod: a run ends where
\* arr[k] differs from arr[k - SlotPeriod].
PackSlots(arr) ==
    RunsFrom(arr,
             Ascending(({1} \cap (1..Len(arr)))
                       \cup {k \in (SlotPeriod + 1)..Len(arr) : arr[k] /= arr[k - SlotPeriod]}),
             SlotPeriod)

\* An index array as runs in which every element continues the arithmetic
\* progression of the elements IndexStride and 2 * IndexStride before it.
PackIndex(arr) ==
    RunsFrom(arr,
             Ascending(({1} \cap (1..Len(arr)))
                       \cup {k \in (2 * IndexStride + 1)..Len(arr) :
                                arr[k] - arr[k - IndexStride]
                                    /= arr[k - IndexStride] - arr[k - 2 * IndexStride]}),
             2 * IndexStride)

\* The run of a packed array that holds element k.
RunOf(p, k) ==
    p.runs[CHOOSE i \in 1..Len(p.runs) :
               /\ p.runs[i].at <= k
               /\ i = Len(p.runs) \/ p.runs[i + 1].at > k]

\* Element k of a packed buffer of slots.
SlotIn(run, k) == run.head[((k - run.at) % SlotPeriod) + 1]
SlotAt(p, k) == SlotIn(RunOf(p, k), k)

\* Element k of a packed index array.
IndexIn(run, k) ==
    IF k - run.at < 2 * IndexStride THEN run.head[k - run.at + 1]
    ELSE run.head[((k - run.at) % IndexStride) + 1]
             + ((k - run.at) \div IndexStride)
                   * (run.head[IndexStride + ((k - run.at) % IndexStride) + 1]
                          - run.head[((k - run.at) % IndexStride) + 1])
IndexAt(p, k) == IndexIn(RunOf(p, k), k)

UnpackSlots(p) == AsSeq([k \in 1..p.length |-> SlotAt(p, k)])

PackStore(st) ==
    [st EXCEPT !.vertices = PackSlots(@),
               !.normals = IF IsDefined(@) THEN Some(PackSlots(Get(@))) ELSE @]

UnpackStore(st) ==
    [st EXCEPT !.vertices = UnpackSlots(@),
               !.normals = IF IsDefined(@) THEN Some(UnpackSlots(Get(@))) ELSE @]

PackWorld(w) == [w EXCEPT !.stores = [i \in 1..Len(@) |-> PackStore(@[i])]]
UnpackWorld(w) == [w EXCEPT !.stores = [i \in 1..Len(@) |-> UnpackStore(@[i])]]

PackPrimitive(mesh) ==
    [mesh EXCEPT !.position = IF IsDefined(@) THEN Some(PackSlots(Get(@))) ELSE @,
                 !.index = IF IsDefined(@) THEN Some(PackIndex(Get(@))) ELSE @]

PackMeshes(m) == [m EXCEPT !.children = [i \in 1..Len(@) |-> PackPrimitive(@[i])]]

\* count calls of geometry.pushCoordinatesValues(feature, 0, 0, 0) in one
\* step: every call writes the default normal and the values at
\* feature._pos and advances it by feature.size.
pushZeros(st, feature, count) ==
    LET from == feature.pos
        to == feature.pos + feature.size * count
        length == IF to > Len(st.vertices) THEN to ELSE Len(st.vertices)
    IN  [store |->
            [st EXCEPT
                !.vertices = AsSeq([k \in 1..length |->
                                 IF k - 1 >= from /\ k - 1 < to THEN Num(0)
                                 ELSE IF k <= Len(@) THEN @[k] ELSE Hole]),
                !.normals = IF IsDefined(@)
                            THEN Some(AsSeq([k \in 1..length |->
                                     IF k - 1 >= from /\ k - 1 < to
                                     THEN Num(defaultNormal[((k - 1 - from) % 3) + 1])
                                     ELSE IF k <= Len(Get(@)) THEN Get(@)[k] ELSE Hole]))
                            ELSE @],
         feature |-> [feature EXCEPT !.pos = to]]

\* feature.bindNewGeometry(), geometry.startSubGeometry(count, feature) and
\* the count pushes of the new sub-geometry.
populateZeros(w, fid, count) ==
    LET feature == w.features[fid]
        w1 == bindNewGeometry(w, fid)
        gi == Len(w1.stores[feature.store].geometries)
        r == pushZeros(startSubGeometry(w1.stores[feature.store], gi, count, feature),
                       feature, count)
    IN  [w1 EXCEPT !.features[fid] = r.feature, !.stores[feature.store] = r.store]

\* A collection holding one freshly requested LINE or POLYGON Feature.
InitIndexLimit ==
    \E structure \in {"2d", "3d"}, type \in {FEATURE_TYPES.LINE, FEATURE_TYPES.POLYGON} :
        LET r == requestFeatureByType(
                     EmptyWorld(Options(structure, Undefined, Undefined, FALSE)), type)
        IN  /\ collection = r.world.collection
            /\ features = r.world.features
            /\ stores = PackWorld(r.world).stores
            /\ phase = "populate"
            /\ last = [NoParse EXCEPT !.world = <<>>]
            /\ hist = NoHist
            /\ meshes = <<>>

\* The number of vertices the packed buffer of the Feature holds.
LargeVertexCount == StoreOf(1).vertices.length \div features[1].size

\* One geometry of count vertices is added to the Feature.
PopulateGeometry ==
    /\ phase = "populate"
    /\ Len(StoreOf(1).geometries) < MaxLargeGeometries
    /\ \E count \in LargeCounts :
        /\ LargeVertexCount + count <= MaxLargeVertices
        /\ SetWorld(PackWorld(populateZeros(UnpackWorld(World), 1, count)))
    /\ UNCHANGED <<phase, last, hist, meshes>>

\* The end of the population: collection.removeEmptyFeature().
FinishPopulate ==
    /\ phase = "populate"
    /\ SetWorld(removeEmptyFeature(World))
    /\ phase' = "parsed"
    /\ UNCHANGED <<last, hist, meshes>>

\* featuresToThree(collection.features, options, context)
ConvertLarge ==
    /\ phase = "parsed"
    /\ meshes' = PackMeshes(featuresToThree(UnpackWorld(World), collection.features))
    /\ phase' = IF meshes'.threw THEN "failed" ELSE "converted"
    /\ UNCHANGED <<collection, features, stores, last, hist>>

NextIndexLimit ==
    \/ PopulateGeometry
    \/ FinishPopulate
    \/ ConvertLarge

SpecIndexLimit == InitIndexLimit /\ [][NextIndexLimit]_vars

----------------------------------------------------------------------------
(* Claims about the 16-bit index arrays.                                    *)

\* The Feature of SpecIndexLimit was converted to a primitive with an index.
Indexed(kind) ==
    /\ phase = "converted"
    /\ Len(meshes.children) = 1
    /\ meshes.children[1].kind = kind
    /\ IsDefined(meshes.children[1].index)

\* Element k, from 1, of the index array of the primitive.
LargeIndex(k) == IndexAt(meshes.children[1].index[1], k)
LargeIndexLength == meshes.children[1].index[1].length

\* Vertex j of the Feature starts an edge of one of its geometries.
StartsEdge(j) ==
    \E g \in 1..Len(StoreOf(1).geometries) :
        /\ StoreOf(1).geometries[g].indices[1].offset <= j
        /\ j + 1 < StoreOf(1).geometries[g].indices[1].offset
                       + StoreOf(1).geometries[g].indices[1].count

\* C11: every value in the index array of a multi line is at most 65535,
\* and the array is made of pairs (j, j + 1) of true vertex positions of one
\* geometry of the Feature (or of zeros never assigned): no value is a
\* position reduced modulo 2^16.
C11_LineIndicesAreTruePositions ==
    Indexed("LineSegments") =>
        \A k \in 1..LargeIndexLength :
            /\ LargeIndex(k) <= MaxUint16
            /\ k % 2 = 1 => LargeIndex(k) = 0 \/ StartsEdge(LargeIndex(k))
            /\ k % 2 = 0 =>
                   \/ LargeIndex(k) = LargeIndex(k - 1) + 1
                   \/ LargeIndex(k) = 0 /\ LargeIndex(k - 1) = 0

\* A multi line of more than 2^16 vertices whose index reaches 65535.
C11_Witness ==
    /\ Indexed("LineSegments")
    /\ LargeVertexCount > Uint16Modulus
    /\ \E k \in 1..LargeIndexLength : LargeIndex(k) = MaxUint16

\* Some edge of a geometry of the Feature ends at a vertex past 65535.
EdgePastLimit ==
    \E g \in 1..Len(StoreOf(1).geometries) :
        /\ StoreOf(1).geometries[g].indices[1].count >= 2
        /\ StoreOf(1).geometries[g].indices[1].offset
               + StoreOf(1).geometries[g].indices[1].count - 1 > MaxUint16

\* C12: when featureToLine returns a multi line from which an edge is
\* missing because one of its vertices lies past 65535, a warning was
\* logged.
C12_OmittedEdgeIsWarned ==
    Indexed("LineSegments") /\ EdgePastLimit => meshes.children[1].warned

\* Vertex positions a and b belong to one geometry of the Feature.
SameGeometry(a, b) ==
    \E g \in 1..Len(StoreOf(1).geometries) :
        /\ StoreOf(1).geometries[g].indices[1].offset <= a
        /\ a < endOf(StoreOf(1).geometries[g])
        /\ StoreOf(1).geometries[g].indices[1].offset <= b
        /\ b < endOf(StoreOf(1).geometries[g])

\* C13: the flat mesh of a POLYGON Feature of more than 2^16 vertices comes
\* with a logged warning, and every value of its index array is the true
\* position of a vertex of the geometry its triangle belongs to, not that
\* position modulo 2^16.
C13_PolygonIndicesAreTruePositions ==
    /\ Indexed("Mesh")
    /\ features[1].type = FEATURE_TYPES.POLYGON
    /\ LargeVertexCount > Uint16Modulus
    => /\ meshes.children[1].warned
       /\ \A k \in 1..LargeIndexLength :
              SameGeometry(LargeIndex(k), LargeIndex(3 * ((k - 1) \div 3) + 1))

----------------------------------------------------------------------------
(* Claims about extruded polygons.                                          *)

\* The meshes of the POLYGON Features of a collection converted with an
\* extrusion height.
ExtrudedMeshes ==
    IF phase = "converted" /\ collection.style.extrusion
    THEN {i \in Children :
             features[Get(meshes.children[i].feature)].type = FEATURE_TYPES.POLYGON}
    ELSE {}

\* The rings of a Feature, as <<geometry, entry>> pairs, that hold a point.
FilledRings(fid) ==
    {e \in Entries(fid) : StoreOf(fid).geometries[e[1]].indices[e[2]].count >= 1}

\* An index array as the plain array the loop of the conversion fills.
PlainIndices(index) == [k \in 1..Len(index) |-> Num(index[k])]

\* The six indices from position `at` on are two triangles over the points
\* i, i + 1 and their copies total further.
IsSideQuad(indices, at, i, total) ==
    /\ \A n \in 1..6 : Get(indices[at + n]) \in {i, i + 1, i + total, i + 1 + total}
    /\ Cardinality({Get(indices[at + n]) : n \in 1..3}) = 3
    /\ Cardinality({Get(indices[at + n]) : n \in 4..6}) = 3

\* addExtrudedPolygonSideFaces appends to `indices` one side quad for every
\* i in [offset, offset + count - 1), and nothing else.
AppendsSideQuads(indices, total, offset, count, isClockWise) ==
    /\ ~addExtrudedPolygonSideFaces(indices, total, offset, count, isClockWise).threw
    /\ Len(addExtrudedPolygonSideFaces(indices, total, offset, count,
                                       isClockWise).indices)
           = Len(indices) + 6 * (count - 1)
    /\ \A k \in 1..Len(indices) :
           addExtrudedPolygonSideFaces(indices, total, offset, count,
                                       isClockWise).indices[k] = indices[k]
    /\ \A q \in 0..(count - 2) :
           IsSideQuad(addExtrudedPolygonSideFaces(indices, total, offset, count,
                                                  isClockWise).indices,
                      Len(indices) + 6 * q, offset + q, total)

\* The Feature has one geometry of one ring of five points.
OneRingOfFive(fid) ==
    /\ Len(StoreOf(fid).geometries) = 1
    /\ Len(StoreOf(fid).geometries[1].indices) = 1
    /\ StoreOf(fid).geometries[1].indices[1].count = 5

RECURSIVE ShoelaceSum(_, _, _, _)
ShoelaceSum(vertices, offset, count, k) ==
    IF k >= count THEN 0
    ELSE Get(vertices[3 * (offset + ((k + count - 1) % count)) + 1])
             * Get(vertices[3 * (offset + k) + 2])
         - Get(vertices[3 * (offset + k) + 1])
             * Get(vertices[3 * (offset + ((k + count - 1) % count)) + 2])
         + ShoelaceSum(vertices, offset, count, k + 1)

\* The six values of `block` stand next to each other in the index array.
HasBlock(index, block) ==
    \E at \in 0..(Len(index) - Len(block)) :
        \A n \in 1..Len(block) : index[at + n] = block[n]

\* The outer ring of geometry g of a Feature.
OuterRing(fid, g) == StoreOf(fid).geometries[g].indices[1]

\* C15: in the mesh of featureToExtrudedPolygon, the side quads of every
\* geometry of the Feature have the vertex order that the sign of the
\* shoelace area of that geometry's own outer ring [offset, offset + count)
\* selects.
C15_WindingPerGeometry ==
    \A m \in ExtrudedMeshes :
        FilledRings(Get(meshes.children[m].feature)) = Entries(Get(meshes.children[m].feature))
        => \A g \in 1..Len(StoreOf(Get(meshes.children[m].feature)).geometries) :
               /\ OuterRing(Get(meshes.children[m].feature), g).count >= 2
               /\ ShoelaceSum(StoreOf(Get(meshes.children[m].feature)).vertices,
                              OuterRing(Get(meshes.children[m].feature), g).offset,
                              OuterRing(Get(meshes.children[m].feature), g).count, 0) /= 0
               => HasBlock(Get(meshes.children[m].index),
                           sideFace(OuterRing(Get(meshes.children[m].feature), g).offset,
                                    VertexCount(Get(meshes.children[m].feature)),
                                    ShoelaceSum(
                                        StoreOf(Get(meshes.children[m].feature)).vertices,
                                        OuterRing(Get(meshes.children[m].feature), g).offset,
                                        OuterRing(Get(meshes.children[m].feature), g).count,
                                        0) < 0))

\* The extruded meshes of Features of one geometry of one ring of three or
\* more points and of non-zero area.
SingleRingMeshes ==
    {m \in ExtrudedMeshes :
        /\ Len(StoreOf(Get(meshes.children[m].feature)).geometries) = 1
        /\ Len(StoreOf(Get(meshes.children[m].feature)).geometries[1].indices) = 1
        /\ OuterRing(Get(meshes.children[m].feature), 1).count >= 3
        /\ ShoelaceSum(StoreOf(Get(meshes.children[m].feature)).vertices, 0,
                       OuterRing(Get(meshes.children[m].feature), 1).count, 0) /= 0}

\* The buffer of a single ring of count points with the points in reverse
\* order.
ReversedRing(vertices, count) ==
    [k \in 1..Len(vertices) |-> vertices[3 * (count - 1 - ((k - 1) \div 3)) + ((k - 1) % 3) + 1]]

\* Component c of vertex v of the position attribute of mesh m.
Position(m, v, c) == Get(Get(meshes.children[m].position)[3 * v + c])

\* The x and y components of the normal (B - A) x (C - A) of the triangle
\* over the vertices a, b, c of mesh m.
NormalX(m, a, b, c) ==
    (Position(m, b, 2) - Position(m, a, 2)) * (Position(m, c, 3) - Position(m, a, 3))
        - (Position(m, b, 3) - Position(m, a, 3)) * (Position(m, c, 2) - Position(m, a, 2))
NormalY(m, a, b, c) ==
    (Position(m, b, 3) - Position(m, a, 3)) * (Position(m, c, 1) - Position(m, a, 1))
        - (Position(m, b, 1) - Position(m, a, 1)) * (Position(m, c, 3) - Position(m, a, 3))

\* The triangle (a, b, c) over the edge from point i to point i + 1 of a ring
\* of shoelace sum `sum` faces the exterior of the ring: its normal points to
\* the right of the edge for a counter-clockwise ring, to the left for a
\* clockwise one.
FacesExterior(m, a, b, c, i, sum) ==
    IF sum > 0
    THEN NormalX(m, a, b, c) * (Position(m, i + 1, 2) - Position(m, i, 2))
             - NormalY(m, a, b, c) * (Position(m, i + 1, 1) - Position(m, i, 1)) > 0
    ELSE NormalY(m, a, b, c) * (Position(m, i + 1, 1) - Position(m, i, 1))
             - NormalX(m, a, b, c) * (Position(m, i + 1, 2) - Position(m, i, 2)) > 0

\* Side triangle t, from 0, of the single ring of mesh m: the index array
\* ends with the 6 * (count - 1) side indices.
SideTriangleFacesExterior(m, t, count, sum) ==
    FacesExterior(m,
        Get(meshes.children[m].index)[Len(Get(meshes.children[m].index)) - 6 * (count - 1) + 3 * t + 1],
        Get(meshes.children[m].index)[Len(Get(meshes.children[m].index)) - 6 * (count - 1) + 3 * t + 2],
        Get(meshes.children[m].index)[Len(Get(meshes.children[m].index)) - 6 * (count - 1) + 3 * t + 3],
        t \div 2, sum)

----------------------------------------------------------------------------
(* Claims about flat polygons.                                              *)

\* The Feature holds one closed ring of five 2D points, four of them
\* distinct: a square parsed into a collection of structure 2D.
SquareRing2D(fid) ==
    /\ features[fid].size = 2
    /\ OneRingOfFive(fid)
    /\ Len(StoreOf(fid).vertices) = 10
    /\ StoreOf(fid).vertices[1] = StoreOf(fid).vertices[9]
    /\ StoreOf(fid).vertices[2] = StoreOf(fid).vertices[10]
    /\ Cardinality({<<StoreOf(fid).vertices[2 * p - 1], StoreOf(fid).vertices[2 * p]>> :
                       p \in 1..4}) = 4

\* C17: for a 2D Feature holding the closed square ring, the mesh of
\* featureToPolygon has exactly 6 indices, two triangles, each of them one
\* of the 4 unique vertices 0..3 of the ring - what the triangulation of
\* the ring's points read with the Feature's own size yields.
C17_FlatSquare2D ==
    phase = "converted" /\ ~collection.style.extrusion =>
        \A m \in Children :
            /\ features[Get(meshes.children[m].feature)].type = FEATURE_TYPES.POLYGON
            /\ SquareRing2D(Get(meshes.children[m].feature))
            => /\ IsDefined(meshes.children[m].index)
               /\ Len(Get(meshes.children[m].index)) = 6
               /\ \A k \in 1..Len(Get(meshes.children[m].index)) :
                      Get(meshes.children[m].index)[k] \in 0..3

----------------------------------------------------------------------------
(* Features by reference: a Feature is populated, referenced with           *)
(* newFeatureByReference, and both Features are then used through the       *)
(* Feature and FeatureGeometry interfaces.  `last` records the call made    *)
(* and the Feature it was made on, and for pushCoordinates the coordinate   *)
(* it was given.                                                            *)

MaxReferenceCalls == 4     \* calls made on the Features

\* The extents of the geometries handed to updateExtent.
GeometryExtents ==
    {Some([west |-> 0, east |-> 1, south |-> 0, north |-> 1]),
     Some([west |-> 2, east |-> 3, south |-> 2, north |-> 3])}

\* The call `op` was made on, or returned, Feature fid.
CallOn(op, fid) ==
    /\ last' = [op |-> op, fid |-> fid]
    /\ Called

\* A collection, with or without an extent, holding one requested Feature.
InitReference ==
    \E structure \in {"2d", "3d"}, buildExtent \in BOOLEAN :
        LET r == requestFeatureByType(
                     EmptyWorld([Options(structure, Undefined, Undefined, FALSE)
                                    EXCEPT !.buildExtent = buildExtent]),
                     FEATURE_TYPES.LINE)
        IN  /\ collection = r.world.collection
            /\ features = r.world.features
            /\ stores = r.world.stores
            /\ phase = "populate"
            /\ last = [op |-> "requestFeatureByType", fid |-> 1]
            /\ hist = NoHist
            /\ meshes = <<>>

\* collection.newFeatureByReference(feature)
ReferenceFeature ==
    /\ hist.calls < MaxReferenceCalls
    /\ Len(features) < MaxFeatures
    /\ \E fid \in FeatureIds :
        /\ SetWorld(newFeatureByReference(World, features[fid]).world)
        /\ CallOn("newFeatureByReference", Len(features) + 1)
    /\ UNCHANGED <<phase, meshes>>

\* feature.updateExtent(geometry)
UpdateExtent ==
    /\ hist.calls < MaxReferenceCalls
    /\ \E fid \in FeatureIds : \E geometryExtent \in GeometryExtents :
        /\ SetWorld(updateExtent(World, fid, geometryExtent))
        /\ CallOn("updateExtent", fid)
    /\ UNCHANGED <<phase, meshes>>

\* feature.bindNewGeometry()
BindOn ==
    /\ hist.calls < MaxReferenceCalls
    /\ \E fid \in FeatureIds :
        /\ Len(StoreOf(fid).geometries) < MaxGeometries
        /\ SetWorld(bindNewGeometry(World, fid))
        /\ CallOn("bindNewGeometry", fid)
    /\ UNCHANGED <<phase, meshes>>

\* geometry.startSubGeometry(count, feature)
StartOn ==
    /\ hist.calls < MaxReferenceCalls
    /\ \E fid \in FeatureIds : \E gi \in GeometryIds(fid) : \E count \in 0..MaxCount :
        /\ Len(StoreOf(fid).geometries[gi].indices) < MaxIndices
        /\ VertexCount(fid) + count <= MaxVertices
        /\ stores' = [stores EXCEPT ![features[fid].store] =
                          startSubGeometry(@, gi, count, features[fid])]
        /\ CallOn("startSubGeometry", fid)
    /\ UNCHANGED <<collection, features, phase, meshes>>

\* geometry.pushCoordinates(coordIn, feature)
PushOn ==
    /\ hist.calls < MaxReferenceCalls
    /\ \E fid \in FeatureIds : \E gi \in GeometryIds(fid) : \E coordIn \in InputCoords :
        /\ features[fid].pos \div features[fid].size < MaxVertices
        /\ SetWorld(pushCoordinates(World, fid, coordIn))
        /\ last' = [op |-> "pushCoordinates", fid |-> fid, coordIn |-> coordIn]
        /\ Called
    /\ UNCHANGED <<phase, meshes>>

\* geometry.pushCoordinatesValues(feature, long, lat, alt)
PushValuesOn ==
    /\ hist.calls < MaxReferenceCalls
    /\ \E fid \in FeatureIds : \E gi \in GeometryIds(fid) : \E c \in InputCoords :
        /\ features[fid].pos \div features[fid].size < MaxVertices
        /\ LET r == pushCoordinatesValues(StoreOf(fid), features[fid],
                                          c.x, c.y, c.z, defaultNormal)
           IN  /\ stores' = [stores EXCEPT ![features[fid].store] = r.store]
               /\ features' = [features EXCEPT ![fid] = r.feature]
        /\ CallOn("pushCoordinatesValues", fid)
    /\ UNCHANGED <<collection, phase, meshes>>

\* geometry.closeSubGeometry(count, feature)
CloseOn ==
    /\ hist.calls < MaxReferenceCalls
    /\ \E fid \in FeatureIds : \E gi \in GeometryIds(fid) : \E count \in 0..MaxCount :
        /\ Len(StoreOf(fid).geometries[gi].indices) < MaxIndices
        /\ stores' = [stores EXCEPT ![features[fid].store] =
                          closeSubGeometry(@, gi, count, features[fid])]
        /\ CallOn("closeSubGeometry", fid)
    /\ UNCHANGED <<collection, features, phase, meshes>>

NextReference ==
    \/ ReferenceFeature
    \/ UpdateExtent
    \/ BindOn
    \/ StartOn
    \/ PushOn
    \/ PushValuesOn
    \/ CloseOn

SpecReference == InitReference /\ [][NextReference]_vars

\* The Features made by newFeatureByReference: those that are not the first
\* to point to their arrays.
IsReference(fid) == \E f \in 1..(fid - 1) : features[f].store = features[fid].store

\* The extent of Feature fid in the heap `fs` of Features.
ExtentOf(fs, fid) ==
    IF IsDefined(fs[fid].extent) THEN Some(fs[Get(fs[fid].extent)].box) ELSE Undefined

\* C18: a Feature made by newFeatureByReference points to the arrays of its
\* source, and an updateExtent(geometry) call on a Feature leaves the extent
\* of every other Feature as it was: the reference and its source have
\* extents of their own.
C18_ReferenceHasOwnExtent ==
    [][/\ \A fid \in 1..Len(features') :
              last'.op = "newFeatureByReference" /\ last'.fid = fid /\ fid > Len(features)
              => IsReference(fid)'
       /\ last'.op = "updateExtent" =>
              \A fid \in FeatureIds \ {last'.fid} :
                  ExtentOf(features', fid) = ExtentOf(features, fid)]_vars

\* The calls that populate a Feature.
PopulationCalls ==
    {"bindNewGeometry", "startSubGeometry", "pushCoordinates",
     "pushCoordinatesValues", "closeSubGeometry"}

\* C19: a population call (bindNewGeometry, startSubGeometry,
\* pushCoordinates, pushCoordinatesValues, closeSubGeometry) made on a Feature
\* that newFeatureByReference created leaves the vertices, the normals and
\* the geometries it shares with its source as they were, in contents and in
\* length.
C19_ReferenceLeavesSharedArrays ==
    [][(last'.op \in PopulationCalls /\ IsReference(last'.fid))
           => stores' = stores]_vars

----------------------------------------------------------------------------
(* A writer that appends runs of coordinates with pushCoordinatesValues and *)
(* closes each run with closeSubGeometry(count), never calling              *)
(* startSubGeometry.  `last` records the call made, the geometry of the run, *)
(* the coordinates appended in the run so far (for closeSubGeometry, the    *)
(* count it was given), and the fill position and the length of the        *)
(* vertices before a closeSubGeometry.                                      *)

NoRun == [op |-> "requestFeatureByType", gi |-> 0, count |-> 0, fill |-> 0, length |-> 0]

\* A run is open: coordinates were appended and not yet closed.
RunOpen == last.op = "pushCoordinatesValues"

\* A collection of either structure holding one requested Feature.
InitClose ==
    \E structure \in {"2d", "3d"} :
        LET r == requestFeatureByType(
                     EmptyWorld(Options(structure, Undefined, Undefined, FALSE)),
                     FEATURE_TYPES.LINE)
        IN  /\ collection = r.world.collection
            /\ features = r.world.features
            /\ stores = r.world.stores
            /\ phase = "populate"
            /\ last = NoRun
            /\ hist = NoHist
            /\ meshes = <<>>

\* feature.bindNewGeometry(), between two runs.
BindForRun ==
    /\ ~RunOpen
    /\ \E fid \in FeatureIds :
        /\ Len(StoreOf(fid).geometries) < MaxGeometries
        /\ SetWorld(bindNewGeometry(World, fid))
    /\ last' = [NoRun EXCEPT !.op = "bindNewGeometry"]
    /\ UNCHANGED <<phase, hist, meshes>>

\* geometry.pushCoordinatesValues(feature, long, lat, alt): one more
\* coordinate of the open run, or the first of a new run of any geometry.
PushRun ==
    /\ \E fid \in FeatureIds : \E gi \in GeometryIds(fid) : \E c \in InputCoords :
        /\ RunOpen => gi = last.gi
        /\ Len(StoreOf(fid).geometries[gi].indices) < MaxIndices
        /\ VertexCount(fid) < MaxVertices
        /\ LET r == pushCoordinatesValues(StoreOf(fid), features[fid],
                                          c.x, c.y, c.z, defaultNormal)
           IN  /\ stores' = [stores EXCEPT ![features[fid].store] = r.store]
               /\ features' = [features EXCEPT ![fid] = r.feature]
        /\ last' = [NoRun EXCEPT !.op = "pushCoordinatesValues", !.gi = gi,
                                 !.count = IF RunOpen THEN last.count + 1 ELSE 1]
    /\ UNCHANGED <<collection, phase, hist, meshes>>

\* geometry.closeSubGeometry(count, feature), count being the coordinates
\* of the open run.
CloseRun ==
    /\ RunOpen
    /\ \E fid \in FeatureIds :
        /\ stores' = [stores EXCEPT ![features[fid].store] =
                          closeSubGeometry(@, last.gi, last.count, features[fid])]
        /\ last' = [last EXCEPT !.op = "closeSubGeometry",
                                !.fill = features[fid].pos \div features[fid].size,
                                !.length = Len(StoreOf(fid).vertices)]
    /\ UNCHANGED <<collection, features, phase, hist, meshes>>

NextClose ==
    \/ BindForRun
    \/ PushRun
    \/ CloseRun

SpecClose == InitClose /\ [][NextClose]_vars

\* The entry the last closeSubGeometry recorded.
ClosedEntry ==
    LET ix == StoreOf(1).geometries[last.gi].indices IN ix[Len(ix)]

\* C20: closeSubGeometry(count, feature), called after count coordinates
\* were appended with pushCoordinatesValues and no startSubGeometry, records
\* an entry of that count whose offset is the fill position of the buffer
\* less count, and leaves vertices.length as it was; for the first and for
\* every later sub-geometry of the geometry, whatever other geometry of the
\* Feature appended vertices in between.
C20_CloseRecordsFillLessCount ==
    last.op = "closeSubGeometry" =>
        /\ ClosedEntry.count = last.count
        /\ ClosedEntry.offset = last.fill - last.count
        /\ Len(StoreOf(1).vertices) = last.length

----------------------------------------------------------------------------
(* Claims about the indices of flat polygons.                               *)

\* The meshes featureToPolygon returned in the last conversion.
FlatMeshes ==
    IF phase = "converted" /\ ~collection.style.extrusion
    THEN {m \in Children :
             features[Get(meshes.children[m].feature)].type = FEATURE_TYPES.POLYGON}
    ELSE {}

\* The start of the outer ring and the end of the last ring of geometry g.
StartOf(fid, g) == StoreOf(fid).geometries[g].indices[1].offset
EndOf(fid, g) ==
    LET ix == StoreOf(fid).geometries[g].indices
    IN  ix[Len(ix)].offset + ix[Len(ix)].count

\* The offsets of the rings after the first, from the start of the outer
\* ring.
RelativeHoles(fid, g) ==
    LET ix == StoreOf(fid).geometries[g].indices
    IN  [k \in 1..(Len(ix) - 1) |-> ix[k + 1].offset - StartOf(fid, g)]

\* What the triangulation returns for the points [start, end) of geometry g
\* with the relative hole offsets.
TrianglesOf(fid, g) ==
    Earcut(Slice(Float32Array(StoreOf(fid).vertices),
                 StartOf(fid, g) * 3, EndOf(fid, g) * 3),
           RelativeHoles(fid, g), 3)

\* The number of indices appended for the geometries before g.
RECURSIVE BlockAt(_, _)
BlockAt(fid, g) ==
    IF g <= 1 THEN 0 ELSE BlockAt(fid, g - 1) + Len(TrianglesOf(fid, g - 1))

\* C21: in featureToPolygon, for every geometry with outer-ring start
\* `start` and last-ring end `end`, the hole offsets handed to the
\* triangulation are ring.offset - start for each ring after the first, and
\* the indices appended for the geometry are the returned triangle indices
\* plus start; the triangulation returning indices in [0, end - start), every
\* appended index lies in [start, end).
C21_PolygonIndicesAreTranslated ==
    \A m \in FlatMeshes :
        LET fid == Get(meshes.children[m].feature)
            index == Get(meshes.children[m].index)
            n == Len(StoreOf(fid).geometries)
        IN  /\ Len(index) = BlockAt(fid, n + 1)
            /\ \A g \in 1..n :
                /\ holesOffsets(StoreOf(fid).geometries[g], StartOf(fid, g))
                       = RelativeHoles(fid, g)
                /\ \A k \in 1..Len(TrianglesOf(fid, g)) :
                    /\ index[BlockAt(fid, g) + k] = TrianglesOf(fid, g)[k] + StartOf(fid, g)
                    /\ (\A t \in 1..Len(TrianglesOf(fid, g)) :
                            /\ TrianglesOf(fid, g)[t] >= 0
                            /\ TrianglesOf(fid, g)[t] < EndOf(fid, g) - StartOf(fid, g))
                       => /\ index[BlockAt(fid, g) + k] >= StartOf(fid, g)
                          /\ index[BlockAt(fid, g) + k] < EndOf(fid, g)

\* A flat polygon mesh of a Feature whose second geometry starts after the
\* first, has a second ring and is triangulated.
C21_Witness ==
    \E m \in FlatMeshes :
        /\ Len(StoreOf(Get(meshes.children[m].feature)).geometries) >= 2
        /\ StartOf(Get(meshes.children[m].feature), 2) > 0
        /\ Len(RelativeHoles(Get(meshes.children[m].feature), 2)) >= 1
        /\ Len(TrianglesOf(Get(meshes.children[m].feature), 2)) > 0

----------------------------------------------------------------------------
(* Claims about the local frame of a 2D collection.                         *)

\* The vertex a pushCoordinates call on Feature fid stores: the two values
\* written from the Feature's position before the call.
StoredBy(fid) ==
    <<stores'[features[fid].store].vertices[features[fid].pos + 1],
      stores'[features[fid].store].vertices[features[fid].pos + 2]>>

\* C22: in a 2D collection the position of the local frame is set once, by
\* the first setLocalCoordinates call, to the (x, y) of the coordinate of
\* that call; no later call, on whichever Feature of the collection, changes
\* it, and every call subtracts it: the first vertex stored is (0, 0) and
\* every vertex stored is the projected coordinate less the first one.
C22_LocalFrameFixedAtFirstUse ==
    [][collection.size = 2 =>
          /\ collection.localFrameSet =>
                 /\ collection'.localFrameSet
                 /\ collection'.position = collection.position
          /\ last'.op = "pushCoordinates" /\ hist'.calls = hist.calls + 1 =>
                 /\ collection'.localFrameSet
                 /\ ~collection.localFrameSet =>
                        /\ collection'.position.x = project(last'.coordIn).x
                        /\ collection'.position.y = project(last'.coordIn).y
                        /\ StoredBy(last'.fid) = <<Num(0), Num(0)>>
                 /\ StoredBy(last'.fid)
                        = <<Num(project(last'.coordIn).x - collection'.position.x),
                            Num(project(last'.coordIn).y - collection'.position.y)>>]_vars

\* A pushCoordinates on a second Feature of a 2D collection, with another
\* coordinate than the one that fixed the frame.
C22_Witness ==
    /\ collection.size = 2
    /\ last.op = "pushCoordinates"
    /\ last.fid >= 2
    /\ collection.localFrameSet
    /\ collection.position.x /= project(last.coordIn).x

----------------------------------------------------------------------------
(* Writers that fill the geometries of one Feature in any interleaving:     *)
(* each opens a sub-geometry with startSubGeometry(count) and then makes    *)
(* count pushCoordinates calls.  `hist` records, for every geometry, the    *)
(* pushes its open sub-geometry still awaits, and for every push the        *)
(* geometry, the entry and the vertex position it was stored at.            *)

NoFill == [open |-> [gi \in 1..MaxGeometries |-> 0], placed |-> {}]

\* A collection of either structure holding one requested Feature.
InitFill ==
    \E structure \in {"2d", "3d"} :
        LET r == requestFeatureByType(
                     EmptyWorld(Options(structure, Undefined, Undefined, FALSE)),
                     FEATURE_TYPES.LINE)
        IN  /\ collection = r.world.collection
            /\ features = r.world.features
            /\ stores = r.world.stores
            /\ phase = "populate"
            /\ last = [op |-> "requestFeatureByType", gi |-> 0]
            /\ hist = NoFill
            /\ meshes = <<>>

\* feature.bindNewGeometry()
BindForFill ==
    /\ \E fid \in FeatureIds :
        /\ Len(StoreOf(fid).geometries) < MaxGeometries
        /\ SetWorld(bindNewGeometry(World, fid))
    /\ last' = [op |-> "bindNewGeometry", gi |-> 0]
    /\ UNCHANGED <<phase, hist, meshes>>

\* geometry.startSubGeometry(count, feature), once the geometry's previous
\* sub-geometry is filled.
StartFill ==
    /\ \E fid \in FeatureIds : \E gi \in GeometryIds(fid) : \E count \in 1..MaxCount :
        /\ hist.open[gi] = 0
        /\ Len(StoreOf(fid).geometries[gi].indices) < MaxIndices
        /\ VertexCount(fid) + count <= MaxVertices
        /\ stores' = [stores EXCEPT ![features[fid].store] =
                          startSubGeometry(@, gi, count, features[fid])]
        /\ hist' = [hist EXCEPT !.open[gi] = count]
        /\ last' = [op |-> "startSubGeometry", gi |-> gi]
    /\ UNCHANGED <<collection, features, phase, meshes>>

\* geometry.pushCoordinates(coordIn, feature), one of the pushes the open
\* sub-geometry of the geometry awaits.
PushFill ==
    /\ \E fid \in FeatureIds : \E gi \in GeometryIds(fid) : \E coordIn \in InputCoords :
        /\ hist.open[gi] > 0
        /\ SetWorld(pushCoordinates(World, fid, coordIn))
        /\ hist' = [hist EXCEPT
                       !.open[gi] = @ - 1,
                       !.placed = @ \cup {<<gi, Len(StoreOf(fid).geometries[gi].indices),
                                            features[fid].pos \div features[fid].size>>}]
        /\ last' = [op |-> "pushCoordinates", gi |-> gi]
    /\ UNCHANGED <<phase, meshes>>

NextFill ==
    \/ BindForFill
    \/ StartFill
    \/ PushFill

SpecFill == InitFill /\ [][NextFill]_vars

\* The vertex positions [offset, offset + count) of an entry.
RangeOf(fid, e) ==
    Entry(fid, e).offset .. (Entry(fid, e).offset + Entry(fid, e).count - 1)

\* C23: for any interleaving of the calls on the geometries of one Feature,
\* the coordinates pushed for a sub-geometry that startSubGeometry(count)
\* opened are stored at vertex positions of the range [offset, offset + count)
\* recorded for it, and the ranges recorded for two different geometries of
\* the Feature do not overlap.
C23_SubGeometriesKeepTheirRanges ==
    /\ \A p \in hist.placed : p[3] \in RangeOf(1, <<p[1], p[2]>>)
    /\ \A e1, e2 \in Entries(1) :
           e1[1] /= e2[1] => RangeOf(1, e1) \cap RangeOf(1, e2) = {}

----------------------------------------------------------------------------
(* Claims about what the conversions leave in the index arrays.             *)

\* `before` is a prefix of `after`.
IsPrefix(before, after) ==
    /\ Len(before) <= Len(after)
    /\ \A k \in 1..Len(before) : after[k] = before[k]

\* C24: addExtrudedPolygonSideFaces removes and overwrites nothing of the
\* index array it is given: called on the index array of an extruded mesh
\* for a ring of the Feature, of any count >= 0 and in either vertex order,
\* it returns with the previous contents as a prefix of the array and a
\* length that is not smaller.
C24_SideFacesOnlyAppend ==
    \A m \in ExtrudedMeshes : \A e \in Entries(Get(meshes.children[m].feature)) :
        \A isClockWise \in BOOLEAN :
            /\ ~addExtrudedPolygonSideFaces(
                    PlainIndices(Get(meshes.children[m].index)),
                    VertexCount(Get(meshes.children[m].feature)),
                    Entry(Get(meshes.children[m].feature), e).offset,
                    Entry(Get(meshes.children[m].feature), e).count, isClockWise).threw
            /\ IsPrefix(PlainIndices(Get(meshes.children[m].index)),
                        addExtrudedPolygonSideFaces(
                            PlainIndices(Get(meshes.children[m].index)),
                            VertexCount(Get(meshes.children[m].feature)),
                            Entry(Get(meshes.children[m].feature), e).offset,
                            Entry(Get(meshes.children[m].feature), e).count,
                            isClockWise).indices)

\* The primitives the multi line case of featureToLine returned in the last
\* conversion.
LineSegmentsMeshes ==
    IF phase = "converted"
    THEN {m \in Children : meshes.children[m].kind = "LineSegments"}
    ELSE {}

\* The geometries of a Feature whose edges the multi line case writes:
\* those with a style.
DrawnGeometries(fid) ==
    {g \in 1..Len(StoreOf(fid).geometries) :
        /\ drawingStylefromContext(StoreOf(fid).geometries[g].properties)
        /\ Len(StoreOf(fid).geometries[g].indices) > 0}

\* (a, b) is an edge (j, j + 1) between two vertices of one drawn geometry.
IsEdgeOf(fid, a, b) ==
    /\ b = a + 1
    /\ \E g \in DrawnGeometries(fid) :
        /\ OuterRing(fid, g).offset <= a
        /\ b < OuterRing(fid, g).offset + OuterRing(fid, g).count

\* The edges (j, j + 1) of the drawn geometries below the 16-bit limit: the
\* edges the multi line case writes.
EdgesWritten(fid) ==
    {j \in 0..(VertexCount(fid) - 1) : j < MaxUint16 /\ IsEdgeOf(fid, j, j + 1)}

\* C25: the index array the multi line case of featureToLine emits holds
\* written edges and nothing else: its length is twice the number of edges
\* written and each of its consecutive pairs is an edge (j, j + 1) between
\* two vertices of one geometry, also when a geometry without a style was
\* skipped.
C25_LineIndexHoldsOnlyEdges ==
    \A m \in LineSegmentsMeshes :
        /\ Len(Get(meshes.children[m].index))
               = 2 * Cardinality(EdgesWritten(Get(meshes.children[m].feature)))
        /\ \A k \in 1..(Len(Get(meshes.children[m].index)) \div 2) :
               IsEdgeOf(Get(meshes.children[m].feature),
                        Get(meshes.children[m].index)[2 * k - 1],
                        Get(meshes.children[m].index)[2 * k])

=============================================================================
